---------------------------- MODULE Spec2Model ----------------------------
(***************************************************************************)
(* Model of the Figma node -> code rendering engine of pixelbyte-figma-mcp *)
(* (src/figma_mcp.py and src/generators/swiftui_generator.py) and of the   *)
(* Code Connect mapping store kept by src/figma_mcp.py.                    *)
(*                                                                         *)
(* A Figma node is a Python dict: it is modelled as a TLA+ record whose    *)
(* DOMAIN holds exactly the keys that are present, so that node.get(k, d)  *)
(* is Get(node, k, d).  A generated source string is modelled as the       *)
(* sequence of its declarations ("tokens"), in the order in which the      *)
(* code appends them: Tok(kind, id, v, s) stands for one line or one       *)
(* class / style declaration emitted for the node with that id.            *)
(* Numbers: colour channels are in thousandths (0..1000), alpha and        *)
(* opacity in hundredths (0..100), sizes are integers.                     *)
(***************************************************************************)
EXTENDS Integers, Sequences, FiniteSets, TLC

VARIABLES
    node,    \* the node tree handed to the generators (the fetched tree)
    cname,   \* the component name handed to the generators
    out,     \* the result of the last generate_<framework>_code call
    memo,    \* history: the first generate call, and whether it was made again
    store,   \* the persisted Code Connect data: file_key -> node_id -> mapping
    clock,   \* the wall clock read by _get_current_timestamp
    res      \* the JSON result of the last Code Connect tool call

vars == <<node, cname, out, memo, store, clock, res>>

---------------------------------------------------------------------------
(* Program constants *)

\* the web renderers' child cap: children[:20]
MAX_CHILDREN_LIMIT == 20
\* the native child cap imported from generators.base
MAX_NATIVE_CHILDREN_LIMIT == 15
\* the cap of _generate_swiftui_children / _generate_kotlin_children
LEGACY_NATIVE_CHILDREN_LIMIT == 10
\* the depth limit imported from generators.base
MAX_DEPTH == 3

(* Bounds of the model *)
MaxChildren == 22      \* longest child list drawn
MaxInvisible == 1      \* most visible=false children in one child list
MaxNest == 6           \* deepest chain of nested containers drawn
MaxClock == 2          \* last value of the wall clock

---------------------------------------------------------------------------
(* Python dict / list helpers *)

Has(d, k) == k \in DOMAIN d
Get(d, k, default) == IF k \in DOMAIN d THEN d[k] ELSE default
\* the empty dict {}
EmptyDict == [x \in {} |-> 0]
\* None, where a function returns Optional[Dict]
None == [none |-> TRUE]
IsNone(x) == "none" \in DOMAIN x
Min(a, b) == IF a < b THEN a ELSE b
Max(a, b) == IF a > b THEN a ELSE b
\* xs[:n]
Take(xs, n) == SubSeq(xs, 1, Min(n, Len(xs)))
Range(xs) == {xs[i] : i \in 1..Len(xs)}

RECURSIVE Concat(_)
\* '\n'.join / list.extend over a sequence of token sequences
Concat(xss) == IF xss = <<>> THEN <<>> ELSE Head(xss) \o Concat(Tail(xss))

\* one emitted line or declaration
Tok(k, id, v, s) == [k |-> k, id |-> id, v |-> v, s |-> s]
Kinds(lines) == {lines[i].k : i \in 1..Len(lines)}
HasTok(lines, k) == \E i \in 1..Len(lines) : lines[i].k = k
HasTokFor(lines, k, id) == \E i \in 1..Len(lines) : lines[i].k = k /\ lines[i].id = id
CountTok(lines, k) == Cardinality({i \in 1..Len(lines) : lines[i].k = k})

\* node.get('id'): the nodes of the model carry an integer id
IdOf(n) == Get(n, "id", -1)
ChildrenOf(n) == Get(n, "children", <<>>)
IsVisible(n) == Get(n, "visible", TRUE)

---------------------------------------------------------------------------
(* Colour conversion *)

\* int(c * 255) for a channel c given in thousandths
Chan255(c) == (c * 255) \div 1000

\* _rgba_to_hex: "#rrggbb" when a == 1, the string "rgba(r, g, b, a)" otherwise
RgbaToHex(color) ==
    LET r == Chan255(Get(color, "r", 0))
        g == Chan255(Get(color, "g", 0))
        b == Chan255(Get(color, "b", 0))
        a == Get(color, "a", 100)
    IN  IF a < 100
        THEN [form |-> "rgba", r |-> r, g |-> g, b |-> b, a |-> a]
        ELSE [form |-> "hex6", r |-> r, g |-> g, b |-> b, a |-> 100]

\* a colour string as the payload of a token: its form and its 24-bit value
ColorCode(c) == c.r * 65536 + c.g * 256 + c.b


---------------------------------------------------------------------------
(* Style extraction layer (src/figma_mcp.py) *)

RECURSIVE MapVisible(_, _)
\* one entry of stroke_colors in _extract_stroke_data
StrokePaint(stroke) ==
    LET stroke_type == Get(stroke, "type", "SOLID")
        base == [type |-> stroke_type, opacity |-> Get(stroke, "opacity", 100)]
    IN  IF stroke_type = "SOLID"
        THEN [type |-> stroke_type, opacity |-> base.opacity,
              color |-> RgbaToHex(Get(stroke, "color", EmptyDict))]
        ELSE base
\* the loop of _extract_stroke_data: visible strokes only, in input order
MapVisible(strokes, i) ==
    IF i > Len(strokes) THEN <<>>
    ELSE (IF Get(strokes[i], "visible", TRUE) THEN <<StrokePaint(strokes[i])>> ELSE <<>>)
         \o MapVisible(strokes, i + 1)

\* _extract_stroke_data: None without strokes, else colours, weight, dashes
ExtractStrokeData(n) ==
    LET strokes == Get(n, "strokes", <<>>)
    IN  IF strokes = <<>> THEN None
        ELSE [colors |-> MapVisible(strokes, 1),
              weight |-> Get(n, "strokeWeight", 1),
              align |-> Get(n, "strokeAlign", "INSIDE"),
              dashes |-> Get(n, "strokeDashes", <<>>)]

RECURSIVE EffectsOfKindHidden(_, _, _)
\* an effects loop without the visibility test: hidden effects are kept
EffectsOfKindHidden(effects, types, i) ==
    IF i > Len(effects) THEN <<>>
    ELSE LET e == effects[i]
             t == Get(e, "type", "")
         IN  (IF t \in types
              THEN <<[type |-> t,
                      color |-> RgbaToHex(Get(e, "color", EmptyDict)),
                      radius |-> Get(e, "radius", 0),
                      spread |-> Get(e, "spread", 0)]>>
              ELSE <<>>)
             \o EffectsOfKindHidden(effects, types, i + 1)

RECURSIVE EffectsOfKind(_, _, _)
\* the loop of _extract_effects_data restricted to one partition
EffectsOfKind(effects, types, i) ==
    IF i > Len(effects) THEN <<>>
    ELSE LET e == effects[i]
             t == Get(e, "type", "")
         IN  (IF Get(e, "visible", TRUE) /\ t \in types
              THEN <<[type |-> t,
                      color |-> RgbaToHex(Get(e, "color", EmptyDict)),
                      radius |-> Get(e, "radius", 0),
                      spread |-> Get(e, "spread", 0)]>>
              ELSE <<>>)
             \o EffectsOfKind(effects, types, i + 1)

\* _extract_effects_data; an empty partition is returned as None and every
\* caller only tests it for truth, so None is modelled as the empty list
ExtractEffectsData(n) ==
    LET effects == Get(n, "effects", <<>>)
    IN  [shadows |-> EffectsOfKind(effects, {"DROP_SHADOW", "INNER_SHADOW"}, 1),
         blurs |-> EffectsOfKind(effects, {"LAYER_BLUR", "BACKGROUND_BLUR"}, 1)]

\* _corner_radii_to_css: "" is <<>>, "Npx" is <<N>>, "a b c d" the four values
CornerRadiiToCss(n) ==
    LET radii == Get(n, "rectangleCornerRadii", <<>>)
        corner_radius == Get(n, "cornerRadius", 0)
    IN  IF Has(n, "rectangleCornerRadii") /\ Len(radii) = 4
        THEN IF radii[1] = radii[2] /\ radii[2] = radii[3] /\ radii[3] = radii[4]
             THEN <<radii[1]>>
             ELSE radii
        ELSE IF corner_radius # 0 THEN <<corner_radius>> ELSE <<>>

\* 'GRADIENT' in fill_type
IsGradientType(t) ==
    t \in {"GRADIENT_LINEAR", "GRADIENT_RADIAL", "GRADIENT_ANGULAR", "GRADIENT_DIAMOND"}

\* _gradient_to_css: None (FALSE here) without stops, else a gradient string
GradientToCss(fill) ==
    IsGradientType(Get(fill, "type", "")) /\ Get(fill, "gradientStops", <<>>) # <<>>

RECURSIVE BackgroundFrom(_, _)
\* the loop of _get_background_css: the first visible fill that yields a value
BackgroundFrom(fills, i) ==
    IF i > Len(fills) THEN [t |-> "none", c |-> RgbaToHex(EmptyDict), i |-> 0]
    ELSE LET fill == fills[i]
             fill_type == Get(fill, "type", "")
             color == Get(fill, "color", EmptyDict)
             opacity == Get(fill, "opacity", 100)
         IN  IF ~Get(fill, "visible", TRUE) THEN BackgroundFrom(fills, i + 1)
             ELSE IF fill_type = "SOLID"
             THEN [t |-> "color",
                   c |-> IF opacity < 100
                         THEN [form |-> "rgba", r |-> Chan255(Get(color, "r", 0)),
                               g |-> Chan255(Get(color, "g", 0)),
                               b |-> Chan255(Get(color, "b", 0)), a |-> opacity]
                         ELSE RgbaToHex(color),
                   i |-> i]
             ELSE IF IsGradientType(fill_type)
             THEN IF GradientToCss(fill)
                  THEN [t |-> "gradient", c |-> RgbaToHex(EmptyDict), i |-> i]
                  ELSE BackgroundFrom(fills, i + 1)
             ELSE IF fill_type = "IMAGE"
             THEN [t |-> "image", c |-> RgbaToHex(EmptyDict), i |-> i]
             ELSE BackgroundFrom(fills, i + 1)

\* _get_background_css: (value, type); t = "none" stands for (None, None)
GetBackgroundCss(n) == BackgroundFrom(Get(n, "fills", <<>>), 1)

\* int(bbox.get('width', 0)) and int(bbox.get('height', 0))
BoxWidth(n) == Get(Get(n, "absoluteBoundingBox", EmptyDict), "width", 0)
BoxHeight(n) == Get(Get(n, "absoluteBoundingBox", EmptyDict), "height", 0)

\* the background declaration of a web element
BgToks(id, bg) ==
    IF bg.t = "color" THEN <<Tok("background-color", id, ColorCode(bg.c), bg.c.form)>>
    ELSE IF bg.t = "gradient" THEN <<Tok("background", id, bg.i, "gradient")>>
    ELSE IF bg.t = "image" THEN <<Tok("background", id, bg.i, "image")>>
    ELSE <<>>

\* one token per value of a border-radius declaration
RadiusToks(id, css) == [i \in 1..Len(css) |-> Tok("border-radius", id, css[i], "")]

\* the stroke colour the web renderers use: that of the first visible stroke,
\* when it is SOLID ('' is modelled by ok = FALSE)
FirstStrokeColor(stroke_data) ==
    IF ~IsNone(stroke_data) /\ stroke_data.colors # <<>>
       /\ stroke_data.colors[1].type = "SOLID"
    THEN [ok |-> TRUE, c |-> stroke_data.colors[1].color]
    ELSE [ok |-> FALSE, c |-> RgbaToHex(EmptyDict)]

---------------------------------------------------------------------------
(* React / JSX renderer: _recursive_node_to_jsx (src/figma_mcp.py) *)

\* the text colour of the web renderers: fills[0] when it is SOLID and visible
WebTextColor(id, fills) ==
    IF fills # <<>> /\ Get(fills[1], "type", "") = "SOLID" /\ Get(fills[1], "visible", TRUE)
    THEN LET c == RgbaToHex(Get(fills[1], "color", EmptyDict))
         IN  <<Tok("color", id, ColorCode(c), c.form)>>
    ELSE <<>>

\* shadow_css of _recursive_node_to_jsx: one part per shadow, never "inset"
JsxShadowToks(id, shadows) ==
    [i \in 1..Len(shadows) |-> Tok("box-shadow", id, shadows[i].radius, "")]

RECURSIVE JsxBlur(_, _, _)
\* blur_css of _recursive_node_to_jsx: the last blur wins, both kinds give blur(Npx)
JsxBlur(blurs, i, acc) ==
    IF i > Len(blurs) THEN acc
    ELSE JsxBlur(blurs, i + 1, [set |-> TRUE, radius |-> blurs[i].radius])

\* the layout declarations of the web renderers (flex, direction, gap)
WebLayoutToks(id, n, withAlign) ==
    LET layout_mode == Get(n, "layoutMode", "")
        gap == Get(n, "itemSpacing", 0)
    IN  IF layout_mode = "" THEN <<>>
        ELSE <<Tok("display", id, 0, "flex"),
               Tok("flex-direction", id, 0,
                   IF layout_mode = "VERTICAL" THEN "column" ELSE "row")>>
             \o (IF gap # 0 THEN <<Tok("gap", id, gap, "")>> ELSE <<>>)
             \o (IF withAlign
                 THEN <<Tok("justify-content", id, 0, Get(n, "primaryAxisAlignItems", "MIN")),
                        Tok("align-items", id, 0, Get(n, "counterAxisAlignItems", "MIN"))>>
                 ELSE <<>>)

\* pt-/pr-/pb-/pl- classes: one per non-zero side
SidePaddingToks(id, n) ==
    (IF Get(n, "paddingTop", 0) # 0 THEN <<Tok("padding", id, n.paddingTop, "top")>> ELSE <<>>)
    \o (IF Get(n, "paddingRight", 0) # 0 THEN <<Tok("padding", id, n.paddingRight, "right")>> ELSE <<>>)
    \o (IF Get(n, "paddingBottom", 0) # 0 THEN <<Tok("padding", id, n.paddingBottom, "bottom")>> ELSE <<>>)
    \o (IF Get(n, "paddingLeft", 0) # 0 THEN <<Tok("padding", id, n.paddingLeft, "left")>> ELSE <<>>)

\* padding: 'Tpx Rpx Bpx Lpx': all four sides when any is non-zero
FourPaddingToks(id, n) ==
    LET pt == Get(n, "paddingTop", 0)
        pr == Get(n, "paddingRight", 0)
        pb == Get(n, "paddingBottom", 0)
        pl == Get(n, "paddingLeft", 0)
    IN  IF pt # 0 \/ pr # 0 \/ pb # 0 \/ pl # 0
        THEN <<Tok("padding", id, pt, "top"), Tok("padding", id, pr, "right"),
               Tok("padding", id, pb, "bottom"), Tok("padding", id, pl, "left")>>
        ELSE <<>>

\* width and height declarations, each only when non-zero
SizeToks(id, n) ==
    (IF BoxWidth(n) # 0 THEN <<Tok("width", id, BoxWidth(n), "")>> ELSE <<>>)
    \o (IF BoxHeight(n) # 0 THEN <<Tok("height", id, BoxHeight(n), "")>> ELSE <<>>)

\* the classes / inline styles of the opening <div> of a container element
JsxDivDecls(n, use_tailwind) ==
    LET id == IdOf(n)
        bg == GetBackgroundCss(n)
        stroke_data == ExtractStrokeData(n)
        stroke_weight == IF IsNone(stroke_data) THEN 0 ELSE stroke_data.weight
        stroke_align == IF IsNone(stroke_data) THEN "INSIDE" ELSE stroke_data.align
        stroke_color == FirstStrokeColor(stroke_data)
        effects_data == ExtractEffectsData(n)
        blur == JsxBlur(effects_data.blurs, 1, [set |-> FALSE, radius |-> 0])
        opacity == Get(n, "opacity", 100)
    IN  SizeToks(id, n)
        \o BgToks(id, bg)
        \o RadiusToks(id, CornerRadiiToCss(n))
        \o (IF stroke_color.ok /\ stroke_weight # 0
            THEN (IF use_tailwind
                  THEN <<Tok("border", id, stroke_weight, "plain"),
                         Tok("border-color", id, ColorCode(stroke_color.c), stroke_color.c.form)>>
                  ELSE <<Tok("border", id, stroke_weight, "solid"),
                         Tok("border-color", id, ColorCode(stroke_color.c), stroke_color.c.form)>>)
                 \o (IF stroke_align = "OUTSIDE"
                     THEN <<Tok("box-sizing", id, 0, "content-box")>> ELSE <<>>)
            ELSE <<>>)
        \o JsxShadowToks(id, effects_data.shadows)
        \o (IF blur.set THEN <<Tok("filter", id, blur.radius, "blur")>> ELSE <<>>)
        \o (IF opacity < 100 THEN <<Tok("opacity", id, opacity, "")>> ELSE <<>>)
        \o WebLayoutToks(id, n, TRUE)
        \o (IF use_tailwind THEN SidePaddingToks(id, n) ELSE FourPaddingToks(id, n))

RECURSIVE RecursiveNodeToJsx(_, _)
\* _recursive_node_to_jsx(node, indent, use_tailwind): the lines it returns
RecursiveNodeToJsx(n, use_tailwind) ==
    LET id == IdOf(n)
        node_type == Get(n, "type", "")
        fills == Get(n, "fills", <<>>)
        bg == GetBackgroundCss(n)
        children == ChildrenOf(n)
        shown == Take(children, MAX_CHILDREN_LIMIT)
    IN  IF node_type = "TEXT"
        THEN <<Tok("span", id, Get(Get(n, "style", EmptyDict), "fontSize", 16), "")>>
             \o WebTextColor(id, fills)
        ELSE IF node_type = "VECTOR" \/ node_type = "BOOLEAN_OPERATION"
        THEN <<Tok("icon", id, 0, "")>> \o SizeToks(id, n)
             \o (IF bg.t = "color" THEN BgToks(id, bg) ELSE <<>>)
        ELSE <<Tok("div", id, 0, "")>>
             \o JsxDivDecls(n, use_tailwind)
             \o Concat([i \in 1..Len(shown) |-> RecursiveNodeToJsx(shown[i], use_tailwind)])
             \o <<Tok("/div", id, 0, "")>>

\* _generate_react_code: the component wrapper around the rendered root
GenerateReactCode(n, component_name, use_tailwind) ==
    [status |-> "ok",
     lines |-> <<Tok("component", -1, 0, component_name)>>
               \o RecursiveNodeToJsx(n, use_tailwind)]

---------------------------------------------------------------------------
(* Vue renderer: _recursive_node_to_vue_template, _generate_recursive_css,
   _generate_vue_code (src/figma_mcp.py) *)

\* the classes of the opening <div> of _recursive_node_to_vue_template
VueDivDecls(n) ==
    LET id == IdOf(n)
        bg == GetBackgroundCss(n)
        stroke_data == ExtractStrokeData(n)
        stroke_weight == IF IsNone(stroke_data) THEN 0 ELSE stroke_data.weight
        stroke_color == FirstStrokeColor(stroke_data)
        opacity == Get(n, "opacity", 100)
    IN  SizeToks(id, n)
        \o (IF bg.t \in {"color", "gradient"} THEN BgToks(id, bg) ELSE <<>>)
        \o RadiusToks(id, CornerRadiiToCss(n))
        \o (IF stroke_color.ok /\ stroke_weight # 0
            THEN <<Tok("border", id, stroke_weight, "plain"),
                   Tok("border-color", id, ColorCode(stroke_color.c), stroke_color.c.form)>>
            ELSE <<>>)
        \o (IF opacity < 100 THEN <<Tok("opacity", id, opacity, "")>> ELSE <<>>)
        \o WebLayoutToks(id, n, FALSE)
        \o SidePaddingToks(id, n)

RECURSIVE RecursiveNodeToVueTemplate(_, _)
\* _recursive_node_to_vue_template(node, indent, use_tailwind)
RecursiveNodeToVueTemplate(n, use_tailwind) ==
    LET id == IdOf(n)
        node_type == Get(n, "type", "")
        fills == Get(n, "fills", <<>>)
        shown == Take(ChildrenOf(n), MAX_CHILDREN_LIMIT)
    IN  IF node_type = "TEXT"
        THEN <<Tok("span", id, Get(Get(n, "style", EmptyDict), "fontSize", 16), "")>>
             \o (IF use_tailwind THEN WebTextColor(id, fills) ELSE <<>>)
        ELSE <<Tok("div", id, 0, "")>>
             \o (IF use_tailwind THEN VueDivDecls(n) ELSE <<>>)
             \o Concat([i \in 1..Len(shown) |->
                           RecursiveNodeToVueTemplate(shown[i], use_tailwind)])
             \o <<Tok("/div", id, 0, "")>>

\* css_props of _generate_recursive_css for one node
RecursiveCssProps(n) ==
    LET id == IdOf(n)
        fills == Get(n, "fills", <<>>)
        strokes == Get(n, "strokes", <<>>)
        corner_radius == Get(n, "cornerRadius", 0)
        bg == IF fills # <<>> /\ Get(fills[1], "type", "") = "SOLID"
                 /\ Get(fills[1], "visible", TRUE)
              THEN LET c == RgbaToHex(Get(fills[1], "color", EmptyDict))
                   IN  <<Tok("background-color", id, ColorCode(c), c.form)>>
              ELSE <<>>
        stroke == IF strokes # <<>> /\ Get(strokes[1], "type", "") = "SOLID"
                     /\ Get(strokes[1], "visible", TRUE)
                  THEN LET c == RgbaToHex(Get(strokes[1], "color", EmptyDict))
                       IN  <<Tok("border", id, Get(n, "strokeWeight", 1), "solid"),
                             Tok("border-color", id, ColorCode(c), c.form)>>
                  ELSE <<>>
    IN  IF Get(n, "type", "") = "TEXT"
        THEN <<Tok("font-size", id, Get(Get(n, "style", EmptyDict), "fontSize", 16), "")>>
             \o (IF fills # <<>> /\ Get(fills[1], "type", "") = "SOLID"
                 THEN LET c == RgbaToHex(Get(fills[1], "color", EmptyDict))
                      IN  <<Tok("color", id, ColorCode(c), c.form)>>
                 ELSE <<>>)
        ELSE SizeToks(id, n) \o bg
             \o (IF corner_radius # 0
                 THEN <<Tok("border-radius", id, corner_radius, "")>> ELSE <<>>)
             \o stroke
             \o WebLayoutToks(id, n, FALSE)
             \o FourPaddingToks(id, n)

RECURSIVE GenerateRecursiveCss(_, _)
\* _generate_recursive_css(node, rules): rules extended by one rule per node
\* that has properties, then by the rules of the first 20 children
GenerateRecursiveCss(n, rules) ==
    LET props == RecursiveCssProps(n)
        own == IF props # <<>> THEN <<Tok("rule", IdOf(n), 0, "")>> \o props ELSE <<>>
        shown == Take(ChildrenOf(n), MAX_CHILDREN_LIMIT)
        Step[i \in 0..Len(shown)] ==
            IF i = 0 THEN rules \o own ELSE GenerateRecursiveCss(shown[i], Step[i - 1])
    IN  Step[Len(shown)]

\* _generate_vue_code: the template, and the scoped CSS without Tailwind
GenerateVueCode(n, component_name, use_tailwind) ==
    [status |-> "ok",
     lines |-> <<Tok("template", -1, 0, "")>>
               \o RecursiveNodeToVueTemplate(n, use_tailwind)
               \o (IF use_tailwind THEN <<>>
                   ELSE <<Tok("style", -1, 0, "")>> \o GenerateRecursiveCss(n, <<>>))]

---------------------------------------------------------------------------
(* CSS and SCSS generators: _generate_css_code, _generate_scss_code *)

\* int(bbox.get(k, 'auto')): without the key, int('auto') raises ValueError
IntRaises(bbox, k) == ~Has(bbox, k)

\* layout_css of the CSS generators: flex, direction, gap, padding, alignment
CssLayoutToks(id, n) ==
    LET layout_mode == Get(n, "layoutMode", "")
    IN  IF layout_mode = "" THEN <<>>
        ELSE <<Tok("display", id, 0, "flex"),
               Tok("flex-direction", id, 0,
                   IF layout_mode = "VERTICAL" THEN "column" ELSE "row"),
               Tok("gap", id, Get(n, "itemSpacing", 0), ""),
               Tok("padding", id, Get(n, "paddingTop", 0), "top"),
               Tok("padding", id, Get(n, "paddingRight", 0), "right"),
               Tok("padding", id, Get(n, "paddingBottom", 0), "bottom"),
               Tok("padding", id, Get(n, "paddingLeft", 0), "left"),
               Tok("justify-content", id, 0, Get(n, "primaryAxisAlignItems", "MIN")),
               Tok("align-items", id, 0, Get(n, "counterAxisAlignItems", "MIN"))>>

\* box-shadow parts of the CSS generators: INNER_SHADOW is prefixed "inset "
CssShadowToks(id, shadows) ==
    [i \in 1..Len(shadows) |->
        Tok("box-shadow", id, shadows[i].radius,
            IF shadows[i].type = "INNER_SHADOW" THEN "inset" ELSE "")]

RECURSIVE CssBlur(_, _, _)
\* blur_css of _generate_css_code: one variable, the last blur of the list wins
CssBlur(blurs, i, acc) ==
    IF i > Len(blurs) THEN acc
    ELSE CssBlur(blurs, i + 1,
                 IF blurs[i].type = "LAYER_BLUR"
                 THEN <<Tok("filter", 0, blurs[i].radius, "blur")>>
                 ELSE IF blurs[i].type = "BACKGROUND_BLUR"
                 THEN <<Tok("backdrop-filter", 0, blurs[i].radius, "blur")>>
                 ELSE acc)

\* _generate_css_code(node, component_name)
GenerateCssCode(n, component_name) ==
    LET id == IdOf(n)
        bbox == Get(n, "absoluteBoundingBox", EmptyDict)
        bg == GetBackgroundCss(n)
        stroke_data == ExtractStrokeData(n)
        stroke_color == FirstStrokeColor(stroke_data)
        opacity == Get(n, "opacity", 100)
        effects_data == ExtractEffectsData(n)
        blur == CssBlur(effects_data.blurs, 1, <<>>)
    IN  IF IntRaises(bbox, "width") \/ IntRaises(bbox, "height")
        THEN [status |-> "raised", lines |-> <<>>]
        ELSE [status |-> "ok",
              lines |->
                <<Tok("rule", -1, 0, component_name),
                  Tok("width", id, bbox.width, ""), Tok("height", id, bbox.height, "")>>
                \o (IF bg.t \in {"color", "gradient"} THEN BgToks(id, bg) ELSE <<>>)
                \o (IF stroke_color.ok
                    THEN <<Tok("border", id, stroke_data.weight, "solid"),
                           Tok("border-color", id, ColorCode(stroke_color.c),
                               stroke_color.c.form)>>
                    ELSE <<>>)
                \o RadiusToks(id, CornerRadiiToCss(n))
                \o (IF opacity < 100 THEN <<Tok("opacity", id, opacity, "")>> ELSE <<>>)
                \o CssShadowToks(id, effects_data.shadows)
                \o [i \in 1..Len(blur) |-> Tok(blur[i].k, id, blur[i].v, blur[i].s)]
                \o CssLayoutToks(id, n)]

RECURSIVE LastRadiusOf(_, _, _, _)
\* blur_value / backdrop_blur of _generate_scss_code: the radius of the last
\* visible effect of the given type, None (-1 here) when there is none
LastRadiusOf(effects, type, i, acc) ==
    IF i > Len(effects) THEN acc
    ELSE LastRadiusOf(effects, type, i + 1,
                      IF Get(effects[i], "visible", TRUE) /\ Get(effects[i], "type", "") = type
                      THEN Get(effects[i], "radius", 0) ELSE acc)

\* _generate_scss_code(node, component_name)
GenerateScssCode(n, component_name) ==
    LET id == IdOf(n)
        bbox == Get(n, "absoluteBoundingBox", EmptyDict)
        bg == GetBackgroundCss(n)
        effects == Get(n, "effects", <<>>)
        shadows == EffectsOfKind(effects, {"DROP_SHADOW", "INNER_SHADOW"}, 1)
        blur_value == LastRadiusOf(effects, "LAYER_BLUR", 1, -1)
        backdrop_blur == LastRadiusOf(effects, "BACKGROUND_BLUR", 1, -1)
        opacity == Get(n, "opacity", 100)
        radius == CornerRadiiToCss(n)
    IN  IF IntRaises(bbox, "width") \/ IntRaises(bbox, "height")
        THEN [status |-> "raised", lines |-> <<>>]
        ELSE [status |-> "ok",
              lines |->
                <<Tok("rule", -1, 0, component_name),
                  Tok("width", id, bbox.width, ""), Tok("height", id, bbox.height, "")>>
                \o BgToks(id, bg)
                \o (IF radius = <<>> THEN <<Tok("border-radius", id, 0, "empty")>>
                    ELSE RadiusToks(id, radius))
                \o CssShadowToks(id, shadows)
                \o (IF opacity < 100 THEN <<Tok("opacity", id, opacity, "")>> ELSE <<>>)
                \o (IF blur_value > 0 THEN <<Tok("filter", id, blur_value, "blur")>> ELSE <<>>)
                \o (IF backdrop_blur > 0
                    THEN <<Tok("backdrop-filter", id, backdrop_blur, "blur")>> ELSE <<>>)
                \o CssLayoutToks(id, n)]

---------------------------------------------------------------------------
(* SwiftUI and Kotlin generators of src/figma_mcp.py:
   _generate_swiftui_code, _generate_swiftui_children,
   _generate_kotlin_code, _generate_kotlin_children *)

\* the stacking primitive chosen from layoutMode
SwiftContainer(n) ==
    LET layout_mode == Get(n, "layoutMode", "")
    IN  IF layout_mode = "VERTICAL" THEN "VStack"
        ELSE IF layout_mode = "HORIZONTAL" THEN "HStack" ELSE "ZStack"

\* one child of _generate_swiftui_children
McpSwiftuiChild(child) ==
    LET id == IdOf(child)
        node_type == Get(child, "type", "")
        bbox == Get(child, "absoluteBoundingBox", EmptyDict)
        w == Get(bbox, "width", 50)
        h == Get(bbox, "height", 50)
        fills == Get(child, "fills", <<>>)
    IN  IF node_type = "TEXT"
        THEN <<Tok("Text", id, 0, ""),
               Tok(".font", id, Get(Get(child, "style", EmptyDict), "fontSize", 16), "")>>
        ELSE IF node_type \in {"FRAME", "GROUP", "COMPONENT", "INSTANCE"}
        THEN IF fills # <<>> /\ Get(fills[1], "type", "") = "SOLID"
             THEN LET color == Get(fills[1], "color", EmptyDict)
                  IN  <<Tok("Rectangle", id, 0, ""),
                        Tok(".fill", id, Get(color, "r", 0), "red"),
                        Tok(".fill", id, Get(color, "g", 0), "green"),
                        Tok(".fill", id, Get(color, "b", 0), "blue"),
                        Tok(".frame", id, w, "width"), Tok(".frame", id, h, "height")>>
             ELSE <<Tok("comment", id, 0, "name"), Tok("Rectangle", id, 0, ""),
                    Tok(".frame", id, w, "width"), Tok(".frame", id, h, "height")>>
        ELSE IF node_type = "RECTANGLE"
        THEN <<Tok("Rectangle", id, 0, ""),
               Tok(".frame", id, w, "width"), Tok(".frame", id, h, "height")>>
        ELSE <<>>

\* _generate_swiftui_children(children): children[:10], every type it knows
McpSwiftuiChildren(children) ==
    LET shown == Take(children, LEGACY_NATIVE_CHILDREN_LIMIT)
    IN  Concat([i \in 1..Len(shown) |-> McpSwiftuiChild(shown[i])])

RECURSIVE McpNativeBackground(_, _)
\* the fill loop of _generate_swiftui_code / _generate_kotlin_code: the first
\* visible fill that is SOLID or a LINEAR / RADIAL gradient ends the loop
McpNativeBackground(fills, i) ==
    IF i > Len(fills) THEN [t |-> "none", i |-> 0]
    ELSE LET fill == fills[i]
             fill_type == Get(fill, "type", "")
         IN  IF ~Get(fill, "visible", TRUE) THEN McpNativeBackground(fills, i + 1)
             ELSE IF fill_type = "SOLID" THEN [t |-> "color", i |-> i]
             ELSE IF fill_type \in {"GRADIENT_LINEAR", "GRADIENT_RADIAL"}
             THEN IF Get(fill, "gradientStops", <<>>) # <<>>
                  THEN [t |-> fill_type, i |-> i] ELSE [t |-> "none", i |-> 0]
             ELSE McpNativeBackground(fills, i + 1)

\* corner_code of the native generators of figma_mcp.py
McpNativeCornerToks(id, n, uniformKind, fourKind) ==
    LET corner_radii == Get(n, "rectangleCornerRadii", <<>>)
        corner_radius == Get(n, "cornerRadius", 0)
    IN  IF corner_radii # <<>> /\ Len(corner_radii) = 4
        THEN IF corner_radii[1] = corner_radii[2] /\ corner_radii[2] = corner_radii[3]
                /\ corner_radii[3] = corner_radii[4]
             THEN IF corner_radii[1] > 0
                  THEN <<Tok(uniformKind, id, corner_radii[1], "")>> ELSE <<>>
             ELSE [i \in 1..4 |-> Tok(fourKind, id, corner_radii[i], "RoundedCorner")]
        ELSE IF corner_radius # 0 THEN <<Tok(uniformKind, id, corner_radius, "")>>
        ELSE <<>>

RECURSIVE McpSwiftuiShadows(_, _, _)
\* shadow_codes of _generate_swiftui_code: DROP_SHADOW only
McpSwiftuiShadows(id, effects, i) ==
    IF i > Len(effects) THEN <<>>
    ELSE (IF Get(effects[i], "visible", TRUE) /\ Get(effects[i], "type", "") = "DROP_SHADOW"
          THEN <<Tok(".shadow", id, Get(effects[i], "radius", 0), "")>> ELSE <<>>)
         \o McpSwiftuiShadows(id, effects, i + 1)

\* _generate_swiftui_code(node, component_name)
McpGenerateSwiftuiCode(n, component_name) ==
    LET id == IdOf(n)
        bbox == Get(n, "absoluteBoundingBox", EmptyDict)
        width == Get(bbox, "width", 100)
        height == Get(bbox, "height", 100)
        bg == McpNativeBackground(Get(n, "fills", <<>>), 1)
        corner == McpNativeCornerToks(id, n, ".cornerRadius", ".clipShape")
        effects == Get(n, "effects", <<>>)
        blur == LastRadiusOf(effects, "LAYER_BLUR", 1, -1)
        opacity == Get(n, "opacity", 100)
        pt == Get(n, "paddingTop", 0)
        pr == Get(n, "paddingRight", 0)
        pb == Get(n, "paddingBottom", 0)
        pl == Get(n, "paddingLeft", 0)
        children_code == McpSwiftuiChildren(ChildrenOf(n))
    IN  [status |-> "ok",
         lines |->
           <<Tok("struct", -1, 0, component_name)>>
           \o (IF bg.t = "GRADIENT_RADIAL"
               THEN <<Tok("RadialGradient", id, 0, ""),
                      Tok("endRadius", id, Max(width, height), "halves")>>
               ELSE IF bg.t = "GRADIENT_LINEAR"
               THEN <<Tok("LinearGradient", id, 0, "")>> ELSE <<>>)
           \o <<Tok("stack", id, Get(n, "itemSpacing", 0), SwiftContainer(n))>>
           \o (IF children_code # <<>> THEN children_code
               ELSE <<Tok("comment", id, 0, "Content")>>)
           \o <<Tok("/stack", id, 0, "")>>
           \o <<Tok(".frame", id, width, "width"), Tok(".frame", id, height, "height")>>
           \o (IF bg.t # "none" THEN <<Tok(".background", id, bg.i, bg.t)>> ELSE <<>>)
           \o corner
           \o McpSwiftuiShadows(id, effects, 1)
           \o (IF blur >= 0 THEN <<Tok(".blur", id, blur, "")>> ELSE <<>>)
           \o (IF opacity < 100 THEN <<Tok(".opacity", id, opacity, "")>> ELSE <<>>)
           \o (IF pt # 0 \/ pr # 0 \/ pb # 0 \/ pl # 0
               THEN <<Tok(".padding", id, pt, "top"), Tok(".padding", id, pl, "leading"),
                      Tok(".padding", id, pb, "bottom"), Tok(".padding", id, pr, "trailing")>>
               ELSE <<>>)
           \o (IF \E i \in 1..Len(corner) : corner[i].s = "RoundedCorner"
               THEN <<Tok("RoundedCornerShape", -1, 0, "")>> ELSE <<>>)]

\* one child of _generate_kotlin_children
McpKotlinChild(child) ==
    LET id == IdOf(child)
        node_type == Get(child, "type", "")
        bbox == Get(child, "absoluteBoundingBox", EmptyDict)
        fills == Get(child, "fills", <<>>)
    IN  IF node_type = "TEXT"
        THEN <<Tok("Text", id, Get(Get(child, "style", EmptyDict), "fontSize", 16), "")>>
        ELSE IF node_type \in {"FRAME", "GROUP", "COMPONENT", "INSTANCE", "RECTANGLE"}
        THEN <<Tok("comment", id, 0, "name"), Tok("Box", id, 0, ""),
               Tok(".width", id, Get(bbox, "width", 50), ""),
               Tok(".height", id, Get(bbox, "height", 50), "")>>
             \o (IF fills # <<>> /\ Get(fills[1], "type", "") = "SOLID"
                 THEN LET color == Get(fills[1], "color", EmptyDict)
                      IN  <<Tok(".background", id,
                                Chan255(Get(color, "r", 0)) * 65536
                                + Chan255(Get(color, "g", 0)) * 256
                                + Chan255(Get(color, "b", 0)), "Color")>>
                 ELSE <<>>)
        ELSE <<>>

\* _generate_kotlin_children(children): children[:10]
McpKotlinChildren(children) ==
    LET shown == Take(children, LEGACY_NATIVE_CHILDREN_LIMIT)
    IN  Concat([i \in 1..Len(shown) |-> McpKotlinChild(shown[i])])

RECURSIVE FirstRadiusOf(_, _, _)
\* shadow_code / blur_code of _generate_kotlin_code: the first visible effect
\* of the type ("and not shadow_code"), -1 when there is none
FirstRadiusOf(effects, type, i) ==
    IF i > Len(effects) THEN -1
    ELSE IF Get(effects[i], "visible", TRUE) /\ Get(effects[i], "type", "") = type
    THEN Get(effects[i], "radius", 0)
    ELSE FirstRadiusOf(effects, type, i + 1)

\* _generate_kotlin_code(node, component_name)
McpGenerateKotlinCode(n, component_name) ==
    LET id == IdOf(n)
        bbox == Get(n, "absoluteBoundingBox", EmptyDict)
        layout_mode == Get(n, "layoutMode", "")
        bg == McpNativeBackground(Get(n, "fills", <<>>), 1)
        effects == Get(n, "effects", <<>>)
        shadow == FirstRadiusOf(effects, "DROP_SHADOW", 1)
        blur == FirstRadiusOf(effects, "LAYER_BLUR", 1)
        opacity == Get(n, "opacity", 100)
        children_code == McpKotlinChildren(ChildrenOf(n))
    IN  [status |-> "ok",
         lines |->
           <<Tok("fun", -1, 0, component_name),
             Tok("stack", id, Get(n, "itemSpacing", 0),
                 IF layout_mode = "VERTICAL" THEN "Column"
                 ELSE IF layout_mode = "HORIZONTAL" THEN "Row" ELSE "Box"),
             Tok(".width", id, Get(bbox, "width", 100), ""),
             Tok(".height", id, Get(bbox, "height", 100), "")>>
           \o (IF shadow >= 0 THEN <<Tok(".shadow", id, shadow, "")>> ELSE <<>>)
           \o (IF bg.t # "none" THEN <<Tok(".background", id, bg.i, bg.t)>> ELSE <<>>)
           \o McpNativeCornerToks(id, n, ".clip", ".clip")
           \o (IF blur >= 0 THEN <<Tok(".blur", id, blur, "")>> ELSE <<>>)
           \o (IF opacity < 100 THEN <<Tok(".alpha", id, opacity, "")>> ELSE <<>>)
           \o <<Tok(".padding", id, Get(n, "paddingTop", 0), "top"),
                Tok(".padding", id, Get(n, "paddingRight", 0), "end"),
                Tok(".padding", id, Get(n, "paddingBottom", 0), "bottom"),
                Tok(".padding", id, Get(n, "paddingLeft", 0), "start")>>
           \o (IF children_code # <<>> THEN children_code
               ELSE <<Tok("comment", id, 0, "Content")>>)
           \o <<Tok("/stack", id, 0, "")>>]

---------------------------------------------------------------------------
(* Recursive SwiftUI generator: src/generators/swiftui_generator.py.  The
   parse_* helpers it imports come from generators.base; they are modelled
   as the intermediate style records of the specification, with the values
   the extraction layer of src/figma_mcp.py computes. *)

\* _extract_corner_radii: None, or the four radii and isUniform
ExtractCornerRadii(n) ==
    IF Has(n, "rectangleCornerRadii")
    THEN LET radii == n.rectangleCornerRadii
         IN  [topLeft |-> IF Len(radii) > 0 THEN radii[1] ELSE 0,
              topRight |-> IF Len(radii) > 1 THEN radii[2] ELSE 0,
              bottomRight |-> IF Len(radii) > 2 THEN radii[3] ELSE 0,
              bottomLeft |-> IF Len(radii) > 3 THEN radii[4] ELSE 0,
              isUniform |-> Cardinality(Range(radii)) = 1]
    ELSE LET corner_radius == Get(n, "cornerRadius", 0)
         IN  IF corner_radius # 0
             THEN [topLeft |-> corner_radius, topRight |-> corner_radius,
                   bottomRight |-> corner_radius, bottomLeft |-> corner_radius,
                   isUniform |-> TRUE]
             ELSE None

\* parse_corners(node): CornerRadii, or None
parse_corners(n) == ExtractCornerRadii(n)
\* parse_stroke(node): StrokeInfo (colors, weight, dashes), or None
parse_stroke(n) == ExtractStrokeData(n)
\* parse_effects(node): the shadows and the blurs, each in input order
parse_effects(n) == ExtractEffectsData(n)

RECURSIVE parse_fills_from(_, _)
parse_fills_from(fills, i) ==
    IF i > Len(fills) THEN <<>>
    ELSE (IF Get(fills[i], "visible", TRUE)
          THEN <<[type |-> Get(fills[i], "type", ""), i |-> i]>> ELSE <<>>)
         \o parse_fills_from(fills, i + 1)
\* parse_fills(node): the visible fill layers, in input order
parse_fills(n) == parse_fills_from(Get(n, "fills", <<>>), 1)

\* a Color(red:, green:, blue:) literal, channels in thousandths
SwiftColor(color) ==
    Get(color, "r", 0) * 1002001 + Get(color, "g", 0) * 1001 + Get(color, "b", 0)

\* _fill_layer_to_swiftui yields code for SOLID, gradient and IMAGE layers
FillLayerHasCode(layer) == layer.type = "SOLID" \/ IsGradientType(layer.type) \/ layer.type = "IMAGE"

RECURSIVE SwiftuiBgParts(_, _, _)
\* bg_parts of _swiftui_fill_modifier: reversed(fill_layers) that yield code
SwiftuiBgParts(id, fill_layers, i) ==
    IF i < 1 THEN <<>>
    ELSE (IF FillLayerHasCode(fill_layers[i])
          THEN <<Tok("layer", id, fill_layers[i].i, fill_layers[i].type)>> ELSE <<>>)
         \o SwiftuiBgParts(id, fill_layers, i - 1)

\* the end radius _gradient_to_swiftui writes for a RADIAL or DIAMOND layer:
\* endRadius: 200, in halves like every end radius of the output
GradientToSwiftuiRadius(id, layer) ==
    IF layer.s \in {"GRADIENT_RADIAL", "GRADIENT_DIAMOND"}
    THEN <<Tok("endRadius", id, 2 * 200, "halves")>> ELSE <<>>

\* _swiftui_fill_modifier(node)
SwiftuiFillModifier(n) ==
    LET id == IdOf(n)
        fill_layers == parse_fills(n)
        bg_parts == SwiftuiBgParts(id, fill_layers, Len(fill_layers))
    IN  IF bg_parts = <<>> THEN <<>>
        ELSE IF Len(bg_parts) = 1
        THEN <<Tok(".background", id, bg_parts[1].v, bg_parts[1].s)>>
             \o GradientToSwiftuiRadius(id, bg_parts[1])
        ELSE <<Tok(".background", id, Len(bg_parts), "ZStack")>>
             \o Concat([i \in 1..Len(bg_parts) |->
                           <<bg_parts[i]>> \o GradientToSwiftuiRadius(id, bg_parts[i])])

\* _swiftui_stroke_modifier(node): an overlay with a solid or a dashed stroke
SwiftuiStrokeModifier(n) ==
    LET id == IdOf(n)
        stroke == parse_stroke(n)
    IN  IF IsNone(stroke) THEN <<>>
        ELSE IF stroke.weight = 0 \/ stroke.colors = <<>> THEN <<>>
        ELSE LET first_color == stroke.colors[1]
                 has_dashes == Len(stroke.dashes) > 0
             IN  IF first_color.type = "SOLID" \/ IsGradientType(first_color.type)
                 THEN <<Tok(".overlay", id, stroke.weight,
                            IF has_dashes THEN "dashed" ELSE "solid")>>
                 ELSE <<>>

\* _swiftui_corner_modifier(node)
SwiftuiCornerModifier(n) ==
    LET id == IdOf(n)
        radii == parse_corners(n)
    IN  IF IsNone(radii) THEN <<>>
        ELSE IF radii.isUniform
        THEN IF radii.topLeft > 0 THEN <<Tok(".cornerRadius", id, radii.topLeft, "")>> ELSE <<>>
        ELSE <<Tok(".clipShape", id, radii.topLeft, "RoundedCorner"),
               Tok(".clipShape", id, radii.topRight, "RoundedCorner"),
               Tok(".clipShape", id, radii.bottomRight, "RoundedCorner"),
               Tok(".clipShape", id, radii.bottomLeft, "RoundedCorner")>>

\* _swiftui_effects_modifier(node): the shadows first, then the blurs
SwiftuiEffectsModifier(n) ==
    LET id == IdOf(n)
        effects_data == parse_effects(n)
        shadows == effects_data.shadows
        blurs == effects_data.blurs
    IN  [i \in 1..Len(shadows) |->
            IF shadows[i].type = "DROP_SHADOW"
            THEN Tok(".shadow", id, shadows[i].radius, "")
            ELSE Tok("comment", id, 0, "Inner shadow")]
        \o [i \in 1..Len(blurs) |->
            IF blurs[i].type = "LAYER_BLUR"
            THEN Tok(".blur", id, blurs[i].radius, "")
            ELSE Tok("comment", id, 0, "Background blur")]

\* _swiftui_appearance_modifiers(node)
SwiftuiAppearanceModifiers(n) ==
    IF Get(n, "opacity", 100) < 100
    THEN <<Tok(".opacity", IdOf(n), n.opacity, "")>> ELSE <<>>

\* the .frame modifier: only when both sides are non-zero
SwiftuiFrame(n) ==
    IF BoxWidth(n) # 0 /\ BoxHeight(n) # 0
    THEN <<Tok(".frame", IdOf(n), BoxWidth(n), "width"),
           Tok(".frame", IdOf(n), BoxHeight(n), "height")>>
    ELSE <<>>

\* _swiftui_collect_modifiers(node)
SwiftuiCollectModifiers(n) ==
    LET id == IdOf(n)
        pt == Get(n, "paddingTop", 0)
        pr == Get(n, "paddingRight", 0)
        pb == Get(n, "paddingBottom", 0)
        pl == Get(n, "paddingLeft", 0)
    IN  SwiftuiFrame(n)
        \o SwiftuiFillModifier(n)
        \o SwiftuiCornerModifier(n)
        \o SwiftuiStrokeModifier(n)
        \o SwiftuiEffectsModifier(n)
        \o SwiftuiAppearanceModifiers(n)
        \o (IF pt # 0 \/ pr # 0 \/ pb # 0 \/ pl # 0
            THEN IF pt = pr /\ pr = pb /\ pb = pl /\ pt > 0
                 THEN <<Tok(".padding", id, pt, "all")>>
                 ELSE <<Tok(".padding", id, pt, "top"), Tok(".padding", id, pl, "leading"),
                        Tok(".padding", id, pb, "bottom"), Tok(".padding", id, pr, "trailing")>>
            ELSE <<>>)
        \o (IF Get(n, "clipsContent", FALSE) THEN <<Tok(".clipped", id, 0, "")>> ELSE <<>>)

RECURSIVE FirstSolidFill(_, _)
\* the fill loops of the SwiftUI nodes: index of the first visible SOLID fill, 0 if none
FirstSolidFill(fills, i) ==
    IF i > Len(fills) THEN 0
    ELSE IF Get(fills[i], "visible", TRUE) /\ Get(fills[i], "type", "") = "SOLID" THEN i
    ELSE FirstSolidFill(fills, i + 1)

\* a = fill.get('opacity', color.get('a', 1))
FillAlpha(fill) == Get(fill, "opacity", Get(Get(fill, "color", EmptyDict), "a", 100))

\* _swiftui_text_node(node, indent)
SwiftuiTextNode(n) ==
    LET id == IdOf(n)
        fills == Get(n, "fills", <<>>)
        k == FirstSolidFill(fills, 1)
    IN  <<Tok("Text", id, 0, Get(n, "characters", Get(n, "name", ""))),
          Tok(".font", id, Get(Get(n, "style", EmptyDict), "fontSize", 16), "")>>
        \o (IF k > 0
            THEN <<Tok(".foregroundColor", id, SwiftColor(Get(fills[k], "color", EmptyDict)),
                       IF FillAlpha(fills[k]) < 100 THEN "opacity" ELSE "")>>
            ELSE <<>>)
        \o SwiftuiAppearanceModifiers(n)

RECURSIVE SwiftuiShapeFill(_, _, _)
\* fill_code of _swiftui_shape_node: the first visible SOLID or gradient fill
SwiftuiShapeFill(id, fills, i) ==
    IF i > Len(fills) THEN <<>>
    ELSE IF ~Get(fills[i], "visible", TRUE) THEN SwiftuiShapeFill(id, fills, i + 1)
    ELSE IF Get(fills[i], "type", "") = "SOLID"
    THEN <<Tok(".fill", id, SwiftColor(Get(fills[i], "color", EmptyDict)),
               IF FillAlpha(fills[i]) < 100 THEN "opacity" ELSE "")>>
    ELSE IF IsGradientType(Get(fills[i], "type", ""))
    THEN <<Tok("comment", id, 0, "Gradient fill")>>
    ELSE SwiftuiShapeFill(id, fills, i + 1)

\* _swiftui_shape_node(node, indent)
SwiftuiShapeNode(n) ==
    LET id == IdOf(n)
        node_type == Get(n, "type", "RECTANGLE")
        corner_radii == parse_corners(n)
        shape_name ==
            IF node_type = "ELLIPSE"
            THEN (IF BoxWidth(n) = BoxHeight(n) THEN "Circle" ELSE "Ellipse")
            ELSE IF node_type = "LINE" THEN "Divider"
            ELSE IF ~IsNone(corner_radii) /\ corner_radii.isUniform /\ corner_radii.topLeft > 0
            THEN "RoundedRectangle" ELSE "Rectangle"
        stroke_data == parse_stroke(n)
    IN  IF shape_name = "Divider"
        THEN <<Tok("shape", id, 0, shape_name)>> \o SwiftuiFrame(n)
             \o SwiftuiAppearanceModifiers(n)
        ELSE <<Tok("shape", id,
                   IF shape_name = "RoundedRectangle" THEN corner_radii.topLeft ELSE 0,
                   shape_name)>>
             \o SwiftuiShapeFill(id, Get(n, "fills", <<>>), 1)
             \o (IF ~IsNone(stroke_data) /\ stroke_data.weight # 0 /\ stroke_data.colors # <<>>
                    /\ stroke_data.colors[1].type = "SOLID"
                 THEN <<Tok(".stroke", id, stroke_data.weight, "solid")>> ELSE <<>>)
             \o SwiftuiFrame(n)
             \o (IF ~IsNone(corner_radii) /\ ~corner_radii.isUniform
                 THEN <<Tok(".clipShape", id, corner_radii.topLeft, "RoundedCorner"),
                        Tok(".clipShape", id, corner_radii.topRight, "RoundedCorner"),
                        Tok(".clipShape", id, corner_radii.bottomRight, "RoundedCorner"),
                        Tok(".clipShape", id, corner_radii.bottomLeft, "RoundedCorner")>>
                 ELSE <<>>)
             \o SwiftuiEffectsModifier(n)
             \o SwiftuiAppearanceModifiers(n)

\* _swiftui_vector_node(node, indent): an icon placeholder up to 48x48
SwiftuiVectorNode(n) ==
    LET id == IdOf(n)
        bbox == Get(n, "absoluteBoundingBox", EmptyDict)
        w == Get(bbox, "width", 24)
        h == Get(bbox, "height", 24)
    IN  IF w <= 48 /\ h <= 48
        THEN <<Tok("Image", id, 0, "icon"),
               Tok(".frame", id, w, "width"), Tok(".frame", id, h, "height")>>
        ELSE <<Tok("comment", id, 0, "Vector"), Tok("shape", id, 0, "Rectangle"),
               Tok(".frame", id, w, "width"), Tok(".frame", id, h, "height")>>

\* _swiftui_empty_container(node, indent)
SwiftuiEmptyContainer(n) ==
    LET id == IdOf(n)
        fills == Get(n, "fills", <<>>)
        k == FirstSolidFill(fills, 1)
    IN  <<Tok("comment", id, 0, "name")>>
        \o (IF k > 0
            THEN <<Tok("Color", id, SwiftColor(Get(fills[k], "color", EmptyDict)),
                       IF FillAlpha(fills[k]) < 100 THEN "opacity" ELSE "")>>
            ELSE <<Tok("Color", id, 0, "clear")>>)
        \o SwiftuiCollectModifiers(n)

RECURSIVE GenerateSwiftuiNode(_, _)
RECURSIVE SwiftuiChildLoop(_, _, _, _, _)

\* the child loop shared by _swiftui_container_node and generate_swiftui_code;
\* child_depth is the depth handed to the children
SwiftuiChildLoop(pid, children, i, child_count, child_depth) ==
    IF i > Len(children) THEN <<>>
    ELSE IF child_count >= MAX_NATIVE_CHILDREN_LIMIT
    THEN <<Tok("truncated", pid, Len(children) - MAX_NATIVE_CHILDREN_LIMIT, "")>>
    ELSE IF ~Get(children[i], "visible", TRUE)
    THEN SwiftuiChildLoop(pid, children, i + 1, child_count, child_depth)
    ELSE LET child_code == GenerateSwiftuiNode(children[i], child_depth)
         IN  IF child_code # <<>>
             THEN child_code
                  \o SwiftuiChildLoop(pid, children, i + 1, child_count + 1, child_depth)
             ELSE SwiftuiChildLoop(pid, children, i + 1, child_count, child_depth)

\* a container that writes its modifiers before its children
SwiftuiContainerPreorder(n, depth) ==
    LET id == IdOf(n)
        children == ChildrenOf(n)
    IN  IF children = <<>> THEN SwiftuiEmptyContainer(n)
        ELSE <<Tok("stack", id, Get(n, "itemSpacing", 0), SwiftContainer(n))>>
             \o SwiftuiCollectModifiers(n)
             \o SwiftuiChildLoop(id, children, 1, 0, depth + 1)
             \o <<Tok("/stack", id, 0, "")>>

\* _swiftui_container_node(node, indent, depth)
SwiftuiContainerNode(n, depth) ==
    LET id == IdOf(n)
        children == ChildrenOf(n)
    IN  IF children = <<>> THEN SwiftuiEmptyContainer(n)
        ELSE <<Tok("stack", id, Get(n, "itemSpacing", 0), SwiftContainer(n))>>
             \o SwiftuiChildLoop(id, children, 1, 0, depth + 1)
             \o <<Tok("/stack", id, 0, "")>>
             \o SwiftuiCollectModifiers(n)

\* _generate_swiftui_node(node, indent, depth): '' is <<>>
GenerateSwiftuiNode(n, depth) ==
    LET node_type == Get(n, "type", "")
    IN  IF depth > MAX_DEPTH THEN <<>>
        ELSE IF node_type = "TEXT" THEN SwiftuiTextNode(n)
        ELSE IF node_type \in {"RECTANGLE", "ELLIPSE", "LINE", "STAR", "REGULAR_POLYGON"}
        THEN SwiftuiShapeNode(n)
        ELSE IF node_type = "VECTOR" THEN SwiftuiVectorNode(n)
        ELSE IF node_type \in {"FRAME", "GROUP", "COMPONENT", "COMPONENT_SET", "INSTANCE",
                               "SECTION"}
        THEN SwiftuiContainerNode(n, depth)
        ELSE <<Tok("comment", IdOf(n), 0, "Unsupported")>>

\* a generator that is not a function of its arguments: it stamps the file it
\* returns with the time of the call
StampedSwiftuiCode(n, component_name) ==
    [status |-> "ok",
     lines |-> <<Tok("comment", -1, clock, "Generated at"),
                 Tok("struct", -1, 0, component_name)>>]

\* generate_swiftui_code(node, component_name).  The body_code it first
\* computes from the root at depth 0 never reaches the returned string: the
\* root is always rendered as a stack around its children, taken at depth 1.
GenerateSwiftuiCode(n, component_name) ==
    LET id == IdOf(n)
        children_lines == SwiftuiChildLoop(id, ChildrenOf(n), 1, 0, 1)
        code == <<Tok("struct", -1, 0, component_name),
                  Tok("stack", id, Get(n, "itemSpacing", 0), SwiftContainer(n))>>
                \o (IF children_lines # <<>> THEN children_lines
                    ELSE <<Tok("comment", id, 0, "Content")>>)
                \o <<Tok("/stack", id, 0, "")>>
                \o SwiftuiCollectModifiers(n)
    IN  [status |-> "ok",
         lines |-> code
                   \o (IF \E i \in 1..Len(code) : code[i].s = "RoundedCorner"
                       THEN <<Tok("RoundedCornerShape", -1, 0, "")>> ELSE <<>>)]

---------------------------------------------------------------------------
(* The calls: one action per generate_<framework>_code function *)

\* the record of one call: the function, its arguments, and what it returned
Call(fw, n, component_name, r) ==
    [fw |-> fw, node |-> n, cname |-> component_name,
     status |-> r.status, lines |-> r.lines]

\* no call made yet
NoCall == [fw |-> "none", node |-> EmptyDict, cname |-> "", status |-> "none", lines |-> <<>>]
\* memo before any call: the first call will be remembered
NoMemo == [first |-> NoCall, again |-> FALSE]
\* memo in the specifications that keep no history
MemoOff == [first |-> [NoCall EXCEPT !.fw = "off"], again |-> FALSE]

\* the dispatch of figma_generate_code, with the generator of
\* src/generators/swiftui_generator.py under the name "swiftui_recursive"
GenerateCode(fw, n, component_name) ==
    IF fw = "react" THEN GenerateReactCode(n, component_name, FALSE)
    ELSE IF fw = "react_tailwind" THEN GenerateReactCode(n, component_name, TRUE)
    ELSE IF fw = "vue" THEN GenerateVueCode(n, component_name, FALSE)
    ELSE IF fw = "vue_tailwind" THEN GenerateVueCode(n, component_name, TRUE)
    ELSE IF fw = "css" THEN GenerateCssCode(n, component_name)
    ELSE IF fw = "scss" THEN GenerateScssCode(n, component_name)
    ELSE IF fw = "swiftui" THEN McpGenerateSwiftuiCode(n, component_name)
    ELSE IF fw = "kotlin" THEN McpGenerateKotlinCode(n, component_name)
    ELSE GenerateSwiftuiCode(n, component_name)

Frameworks ==
    {"react", "react_tailwind", "vue", "vue_tailwind", "css", "scss", "swiftui", "kotlin",
     "swiftui_recursive"}

\* the history: the first call is kept, and so is the fact that a later call
\* had the same function and arguments
Remember(call) ==
    IF memo.first.fw = "none" THEN [first |-> call, again |-> FALSE]
    ELSE IF memo.first.fw = call.fw /\ memo.first.node = call.node
            /\ memo.first.cname = call.cname
    THEN [memo EXCEPT !.again = TRUE]
    ELSE memo

\* _generate_react_code(node, component_name, use_tailwind)
GenerateReact == \E use_tailwind \in BOOLEAN :
    LET fw == IF use_tailwind THEN "react_tailwind" ELSE "react"
        call == Call(fw, node, cname, GenerateReactCode(node, cname, use_tailwind))
    IN  /\ out' = call
        /\ memo' = Remember(call)
        /\ UNCHANGED <<node, cname, store, clock, res>>

\* _generate_vue_code(node, component_name, use_tailwind)
GenerateVue == \E use_tailwind \in BOOLEAN :
    LET fw == IF use_tailwind THEN "vue_tailwind" ELSE "vue"
        call == Call(fw, node, cname, GenerateVueCode(node, cname, use_tailwind))
    IN  /\ out' = call
        /\ memo' = Remember(call)
        /\ UNCHANGED <<node, cname, store, clock, res>>

\* a generator with a side effect: it files what it rendered in the Code
\* Connect store
GenerateCssAndFile ==
    /\ out' = Call("css", node, cname, GenerateCssCode(node, cname))
    /\ memo' = Remember(out')
    /\ store' = [x \in DOMAIN store \cup {"rendered"} |->
                    IF x = "rendered" THEN [y \in {cname} |-> [component_name |-> cname]]
                    ELSE store[x]]
    /\ UNCHANGED <<node, cname, clock, res>>

\* _generate_css_code(node, component_name)
GenerateCss ==
    /\ out' = Call("css", node, cname, GenerateCssCode(node, cname))
    /\ memo' = Remember(out')
    /\ UNCHANGED <<node, cname, store, clock, res>>

\* _generate_scss_code(node, component_name)
GenerateScss ==
    /\ out' = Call("scss", node, cname, GenerateScssCode(node, cname))
    /\ memo' = Remember(out')
    /\ UNCHANGED <<node, cname, store, clock, res>>

\* _generate_swiftui_code(node, component_name) of src/figma_mcp.py
McpGenerateSwiftui ==
    /\ out' = Call("swiftui", node, cname, McpGenerateSwiftuiCode(node, cname))
    /\ memo' = Remember(out')
    /\ UNCHANGED <<node, cname, store, clock, res>>

\* _generate_kotlin_code(node, component_name)
McpGenerateKotlin ==
    /\ out' = Call("kotlin", node, cname, McpGenerateKotlinCode(node, cname))
    /\ memo' = Remember(out')
    /\ UNCHANGED <<node, cname, store, clock, res>>

\* generate_swiftui_code(node, component_name) of src/generators/swiftui_generator.py
GenerateSwiftui ==
    /\ out' = Call("swiftui_recursive", node, cname, GenerateSwiftuiCode(node, cname))
    /\ memo' = Remember(out')
    /\ UNCHANGED <<node, cname, store, clock, res>>

Render ==
    \/ GenerateReact
    \/ GenerateVue
    \/ GenerateCss
    \/ GenerateScss
    \/ McpGenerateSwiftui
    \/ McpGenerateKotlin
    \/ GenerateSwiftui

---------------------------------------------------------------------------
(* Code Connect mapping store: src/figma_mcp.py *)

\* dict with key k set to v
Put(d, k, v) == [x \in DOMAIN d \cup {k} |-> IF x = k THEN v ELSE d[x]]
\* a removal that removes nothing
PopNothing(d, k) == d
\* dict without key k
Pop(d, k) == [x \in DOMAIN d \ {k} |-> d[x]]

\* no tool result yet
NoResult == [tool |-> "none", status |-> "none"]

\* an add that stamps created_at anew on every call
AddFreshStamp(file_key, node_id, component_name) ==
    LET file_mappings == Get(store, file_key, EmptyDict)
        is_update == node_id \in DOMAIN file_mappings
        mapping == [component_name |-> component_name, updated_at |-> clock,
                    created_at |-> clock]
    IN  /\ store' = Put(store, file_key, Put(file_mappings, node_id, mapping))
        /\ res' = [tool |-> "add", status |-> "success",
                   action |-> IF is_update THEN "updated" ELSE "added",
                   file_key |-> file_key, node_id |-> node_id, mapping |-> mapping]
        /\ UNCHANGED <<node, cname, out, memo, clock>>

\* an add that starts the mappings of its file afresh
AddAndClearFile(file_key, node_id, component_name) ==
    LET file_mappings == Get(store, file_key, EmptyDict)
        is_update == node_id \in DOMAIN file_mappings
        mapping == [component_name |-> component_name, updated_at |-> clock,
                    created_at |-> IF is_update
                                   THEN Get(file_mappings[node_id], "created_at", clock)
                                   ELSE clock]
    IN  /\ store' = Put(store, file_key, Put(EmptyDict, node_id, mapping))
        /\ res' = [tool |-> "add", status |-> "success",
                   action |-> IF is_update THEN "updated" ELSE "added",
                   file_key |-> file_key, node_id |-> node_id, mapping |-> mapping]
        /\ UNCHANGED <<node, cname, out, memo, clock>>

\* figma_add_code_connect_map(params)
AddCodeConnectMap(file_key, node_id, component_name) ==
    LET file_mappings == Get(store, file_key, EmptyDict)
        is_update == node_id \in DOMAIN file_mappings
        timestamp == clock
        mapping == [component_name |-> component_name,
                    updated_at |-> timestamp,
                    created_at |-> IF is_update
                                   THEN Get(file_mappings[node_id], "created_at", timestamp)
                                   ELSE timestamp]
    IN  /\ store' = Put(store, file_key, Put(file_mappings, node_id, mapping))
        /\ res' = [tool |-> "add", status |-> "success",
                   action |-> IF is_update THEN "updated" ELSE "added",
                   file_key |-> file_key, node_id |-> node_id, mapping |-> mapping]
        /\ UNCHANGED <<node, cname, out, memo, clock>>

\* a remove that saves the store even when it found nothing, leaving an
\* empty entry for the file
RemoveAndTouch(file_key, node_id) ==
    LET file_mappings == Get(store, file_key, EmptyDict)
    IN  IF node_id \notin DOMAIN file_mappings
        THEN /\ res' = [tool |-> "remove", status |-> "not_found",
                        file_key |-> file_key, node_id |-> node_id]
             /\ store' = Put(store, file_key, file_mappings)
             /\ UNCHANGED <<node, cname, out, memo, clock>>
        ELSE LET rest == Pop(file_mappings, node_id)
             IN  /\ store' = IF DOMAIN rest = {} THEN Pop(store, file_key)
                             ELSE Put(store, file_key, rest)
                 /\ res' = [tool |-> "remove", status |-> "success",
                            file_key |-> file_key, node_id |-> node_id,
                            removed_mapping |-> file_mappings[node_id]]
                 /\ UNCHANGED <<node, cname, out, memo, clock>>

\* figma_remove_code_connect_map(params)
RemoveCodeConnectMap(file_key, node_id) ==
    LET file_mappings == Get(store, file_key, EmptyDict)
    IN  IF node_id \notin DOMAIN file_mappings
        THEN /\ res' = [tool |-> "remove", status |-> "not_found",
                        file_key |-> file_key, node_id |-> node_id]
             /\ UNCHANGED <<node, cname, out, memo, store, clock>>
        ELSE LET rest == Pop(file_mappings, node_id)
             IN  /\ store' = IF DOMAIN rest = {} THEN Pop(store, file_key)
                             ELSE Put(store, file_key, rest)
                 /\ res' = [tool |-> "remove", status |-> "success",
                            file_key |-> file_key, node_id |-> node_id,
                            removed_mapping |-> file_mappings[node_id]]
                 /\ UNCHANGED <<node, cname, out, memo, clock>>

\* figma_get_code_connect_map(params); node_id "" stands for no node_id
GetCodeConnectMap(file_key, node_id) ==
    LET file_mappings == Get(store, file_key, EmptyDict)
    IN  /\ res' = IF DOMAIN file_mappings = {}
                  THEN [tool |-> "get", status |-> "success", file_key |-> file_key,
                        mappings |-> EmptyDict]
                  ELSE IF node_id # ""
                  THEN IF node_id \in DOMAIN file_mappings
                       THEN [tool |-> "get", status |-> "success", file_key |-> file_key,
                             node_id |-> node_id, mapping |-> file_mappings[node_id]]
                       ELSE [tool |-> "get", status |-> "not_found", file_key |-> file_key,
                             node_id |-> node_id]
                  ELSE [tool |-> "get", status |-> "success", file_key |-> file_key,
                        mappings |-> file_mappings,
                        count |-> Cardinality(DOMAIN file_mappings)]
        /\ UNCHANGED <<node, cname, out, memo, store, clock>>

\* the wall clock read by _get_current_timestamp advances
Tick ==
    /\ clock < MaxClock
    /\ clock' = clock + 1
    /\ UNCHANGED <<node, cname, out, memo, store, res>>

---------------------------------------------------------------------------
(* Node trees handed to the generators *)

RECURSIVE SubsetsUpTo(_, _)
\* the subsets of 1..n with at most k elements
SubsetsUpTo(n, k) ==
    IF n = 0 \/ k = 0 THEN {{}}
    ELSE SubsetsUpTo(n - 1, k) \cup {p \cup {n} : p \in SubsetsUpTo(n - 1, k - 1)}

Box(w, h) == [width |-> w, height |-> h]
Black == [r |-> 0, g |-> 0, b |-> 0, a |-> 100]
Solid(color) == [type |-> "SOLID", color |-> color]

\* a child of the child-list trees: child i, invisible when asked
Child(i, visible) ==
    IF visible THEN [id |-> i, type |-> "RECTANGLE"]
    ELSE [id |-> i, type |-> "RECTANGLE", visible |-> FALSE]

\* the child lists of up to max_len children, at most max_inv of them
\* invisible, at any position
ChildLists(max_len, max_inv) ==
    UNION {{[i \in 1..len |-> Child(i, i \notin inv)] :
                inv \in SubsetsUpTo(len, max_inv)} : len \in 0..max_len}

\* the id of the container that wraps a child list one level below the root:
\* an id no child of the list carries
WrapperId == MaxChildren + 78

\* a root frame holding the child list, directly or inside one nested frame
ChildListTrees(lists) ==
    {[id |-> 0, type |-> "FRAME", absoluteBoundingBox |-> Box(100, 100), children |-> kids] :
        kids \in lists}
    \cup
    {[id |-> 0, type |-> "FRAME", absoluteBoundingBox |-> Box(100, 100),
      children |-> <<[id |-> WrapperId, type |-> "FRAME", children |-> kids]>>] :
        kids \in lists \ {<<>>}}

RECURSIVE Chain(_, _, _)
\* nested frames: the node at depth d has id d; the chain ends at depth last
\* with a leaf of the given type
Chain(d, last, leaf_type) ==
    IF d = last
    THEN [id |-> d, type |-> leaf_type, absoluteBoundingBox |-> Box(10, 10)]
    ELSE [id |-> d, type |-> "FRAME", absoluteBoundingBox |-> Box(100, 100),
          children |-> <<Chain(d + 1, last, leaf_type)>>]

LeafTypes == {"TEXT", "RECTANGLE", "VECTOR", "FRAME"}

\* chains of every depth up to MaxNest
ChainTrees == {Chain(0, last, t) : last \in 0..MaxNest, t \in LeafTypes}

\* a record cut down to the given keys: the other attributes are absent
Restrict(r, keys) == [k \in keys |-> r[k]]

RECURSIVE Under(_, _, _)
\* the node leaf placed below `levels` nested frames; ids count up from d
Under(d, levels, leaf) ==
    IF levels = 0 THEN Put(leaf, "id", d)
    ELSE [id |-> d, type |-> "FRAME", absoluteBoundingBox |-> Box(100, 100),
          children |-> <<Under(d + 1, levels - 1, leaf)>>]

KnownTypes ==
    {"TEXT", "RECTANGLE", "ELLIPSE", "LINE", "STAR", "REGULAR_POLYGON", "VECTOR",
     "BOOLEAN_OPERATION", "FRAME", "GROUP", "COMPONENT", "COMPONENT_SET", "INSTANCE",
     "SECTION"}
\* types no renderer knows
UnknownTypes == {"SLICE", "STICKY"}

\* a node of every type, of an unknown type and of no type, at the root, as a
\* child and as a grandchild
TypeTrees ==
    {Under(0, levels, [type |-> t, absoluteBoundingBox |-> Box(40, 30)]) :
        levels \in 0..2, t \in {"TEXT", "RECTANGLE", "VECTOR", "FRAME"} \cup UnknownTypes}
    \cup {Under(0, levels, [absoluteBoundingBox |-> Box(40, 30)]) : levels \in 0..2}

\* a node carrying every optional attribute
FullNode(t) ==
    [type |-> t,
     absoluteBoundingBox |-> Box(40, 30),
     fills |-> <<Solid(Black)>>,
     strokes |-> <<Solid(Black)>>,
     effects |-> <<[type |-> "DROP_SHADOW", radius |-> 4]>>,
     style |-> [fontSize |-> 12],
     children |-> <<[id |-> 1, type |-> "RECTANGLE"]>>,
     cornerRadius |-> 8,
     layoutMode |-> "VERTICAL"]

OptionalKeys ==
    {"absoluteBoundingBox", "fills", "strokes", "effects", "style", "children",
     "cornerRadius", "layoutMode"}

\* every subset of the optional attributes absent, and a bounding box without
\* its width or without its height
AttrTrees ==
    {Put(Restrict(FullNode(t), keys \cup {"type"}), "id", 0) :
        keys \in SUBSET OptionalKeys, t \in {"FRAME", "TEXT", "RECTANGLE"}}
    \cup {Put(Put(FullNode(t), "absoluteBoundingBox", b), "id", 0) :
            b \in {[width |-> 40], [height |-> 30]}, t \in {"FRAME", "TEXT", "RECTANGLE"}}

\* strokes: with a dash pattern, with an empty one and without one
StrokeAttrs ==
    {[strokes |-> <<paint>>, strokeWeight |-> w, strokeDashes |-> dashes] :
        paint \in {Solid(Black), [type |-> "SOLID", color |-> Black, visible |-> FALSE]},
        w \in {0, 2}, dashes \in {<<>>, <<5, 3>>}}
    \cup {[strokes |-> <<Solid(Black)>>, strokeWeight |-> 2],
          [strokes |-> <<Solid(Black)>>, strokeDashes |-> <<5, 3>>]}

\* the attributes a merged onto the base node b
Merge(b, a) == [k \in DOMAIN b \cup DOMAIN a |-> IF k \in DOMAIN a THEN a[k] ELSE b[k]]

StrokeTrees ==
    {Under(0, levels, Merge([type |-> t, absoluteBoundingBox |-> Box(40, 30)], a)) :
        levels \in 0..1, t \in {"FRAME", "RECTANGLE"}, a \in StrokeAttrs}

MaxEffects == 2
EffectTypes == {"DROP_SHADOW", "INNER_SHADOW", "LAYER_BLUR", "BACKGROUND_BLUR"}
Effects ==
    {[type |-> t, radius |-> 4] : t \in EffectTypes}
    \cup {[type |-> t, radius |-> 4, visible |-> FALSE] : t \in EffectTypes}
\* the effect lists of up to MaxEffects effects
EffectLists == UNION {[1..len -> Effects] : len \in 0..MaxEffects}

EffectTrees ==
    {Under(0, levels, [type |-> t, absoluteBoundingBox |-> Box(40, 30), effects |-> es]) :
        levels \in 0..1, t \in {"FRAME", "RECTANGLE"}, es \in EffectLists}

---------------------------------------------------------------------------
(* Specifications *)

\* the state before any call, with the tree drawn from the set trees
InitWith(trees, names, history) ==
    /\ node \in trees
    /\ cname \in names
    /\ out = NoCall
    /\ memo = history
    /\ store = EmptyDict
    /\ clock = 0
    /\ res = NoResult

\* child lists around the caps of the renderers
InitChildren == InitWith(ChildListTrees(ChildLists(MaxChildren, MaxInvisible)), {"Card"}, MemoOff)
SpecChildren == InitChildren /\ [][Render]_vars

\* chains of nested containers
InitDepth == InitWith(ChainTrees, {"Card"}, MemoOff)
SpecDepth == InitDepth /\ [][Render]_vars

\* nodes of every type, with attributes absent, with strokes and with effects
InitNodes ==
    InitWith(TypeTrees \cup AttrTrees \cup StrokeTrees \cup EffectTrees, {"Card"}, MemoOff)
SpecNodes == InitNodes /\ [][Render]_vars

\* the trees and names of the full system
CallTrees ==
    {Under(0, 1, [type |-> "RECTANGLE", absoluteBoundingBox |-> Box(40, 30),
                  strokes |-> <<Solid(Black)>>, strokeWeight |-> 2,
                  effects |-> <<[type |-> "DROP_SHADOW", radius |-> 4]>>]),
     [id |-> 0, type |-> "TEXT", style |-> [fontSize |-> 12]]}
CallNames == {"Card"}
FileKeys == {"F1"}
NodeIds == {"1:2"}

\* figma_generate_code fetches the tree it is asked for and takes the name
Fetch ==
    /\ node' \in CallTrees
    /\ cname' \in CallNames
    /\ UNCHANGED <<out, memo, store, clock, res>>

\* the Code Connect tools, over the given keys
CodeConnect(file_keys, node_ids, names) ==
    \/ \E file_key \in file_keys, node_id \in node_ids, component_name \in names :
          AddCodeConnectMap(file_key, node_id, component_name)
    \/ \E file_key \in file_keys, node_id \in node_ids :
          RemoveCodeConnectMap(file_key, node_id)
    \/ \E file_key \in file_keys, node_id \in node_ids \cup {""} :
          GetCodeConnectMap(file_key, node_id)

Init == InitWith(CallTrees, CallNames, MemoOff)

Next ==
    \/ Render
    \/ Fetch
    \/ CodeConnect(FileKeys, NodeIds, CallNames)
    \/ Tick

\* the full system: calls of the generators interleaved with fetches, with the
\* Code Connect tools and with the passage of time
Spec == Init /\ [][Next]_vars

InitCalls == InitWith(CallTrees, CallNames, NoMemo)

NextCalls ==
    \/ Render
    \/ Fetch
    \/ \E file_key \in FileKeys, node_id \in NodeIds, component_name \in CallNames :
          AddCodeConnectMap(file_key, node_id, component_name)
    \/ \E file_key \in FileKeys, node_id \in NodeIds :
          RemoveCodeConnectMap(file_key, node_id)
    \/ Tick

\* the same system keeping the history of the first call
SpecCalls == InitCalls /\ [][NextCalls]_vars

---------------------------------------------------------------------------
(* Properties *)

RECURSIVE NodesAt(_, _)
\* the nodes of a tree with their depth below the root
NodesAt(n, d) ==
    {[n |-> n, d |-> d]}
    \cup UNION {NodesAt(ChildrenOf(n)[i], d + 1) : i \in 1..Len(ChildrenOf(n))}

\* the ids of the visible children, in order
VisibleIds(children) ==
    LET vis == SelectSeq(children, IsVisible)
    IN  [i \in 1..Len(vis) |-> IdOf(vis[i])]

RECURSIVE FirstSeen(_, _, _, _)
\* the ids among `ids` that the output renders, in the order of their first line
FirstSeen(lines, ids, i, seen) ==
    IF i > Len(lines) THEN <<>>
    ELSE IF lines[i].id \in ids \ seen /\ lines[i].k # "truncated"
    THEN <<lines[i].id>> \o FirstSeen(lines, ids, i + 1, seen \cup {lines[i].id})
    ELSE FirstSeen(lines, ids, i + 1, seen)

\* the positions of the lines of the output that belong to the nodes `ids`
LinesOf(lines, ids) == {i \in 1..Len(lines) : lines[i].id \in ids /\ lines[i].k # "truncated"}

\* the container holding the child list of a child-list tree
ListContainer(n) ==
    IF ChildrenOf(n) # <<>> /\ IdOf(ChildrenOf(n)[1]) = WrapperId
    THEN ChildrenOf(n)[1] ELSE n

\* the child cap of each renderer that walks the tree below the root's children
CapOf(fw) == IF fw = "swiftui_recursive" THEN MAX_NATIVE_CHILDREN_LIMIT ELSE MAX_CHILDREN_LIMIT

RecursiveRenderers == {"react", "react_tailwind", "vue", "vue_tailwind", "swiftui_recursive"}

\* C1: child truncation.  In the recursive renderers (the child loops of
\* _swiftui_container_node and generate_swiftui_code, and the web child
\* loops), a container with V visible children, V above the cap N, is
\* rendered as exactly its first N visible children followed by exactly one
\* truncation marker, and the marker states V - N.
C1_TruncationMarker ==
    (out.status = "ok" /\ out.fw \in RecursiveRenderers) =>
        LET c == ListContainer(out.node)
            kids == ChildrenOf(c)
            ids == {IdOf(kids[i]) : i \in 1..Len(kids)}
            vis == VisibleIds(kids)
            N == CapOf(out.fw)
            markers == {i \in 1..Len(out.lines) :
                           out.lines[i].k = "truncated" /\ out.lines[i].id = IdOf(c)}
        IN  Len(vis) > N =>
                /\ FirstSeen(out.lines, ids, 1, {}) = Take(vis, N)
                /\ Cardinality(markers) = 1
                /\ \A m \in markers :
                      /\ out.lines[m].v = Len(vis) - N
                      /\ \A i \in LinesOf(out.lines, ids) :
                            out.fw = "swiftui_recursive" => i < m

RECURSIVE StripInvisible(_)
\* the tree without its visible=false children, at every level
StripInvisible(n) ==
    IF Has(n, "children")
    THEN LET vis == SelectSeq(n.children, IsVisible)
         IN  [n EXCEPT !.children = [i \in 1..Len(vis) |-> StripInvisible(vis[i])]]
    ELSE n

\* the ids of the visible=false children of the tree
InvisibleIds(n) == {IdOf(x.n) : x \in {y \in NodesAt(n, 0) : y.d > 0 /\ ~IsVisible(y.n)}}

\* C2: invisible children are skipped entirely and do not count toward the
\* cap.  In every renderer the output has no line of a visible=false child,
\* and it is the output for the same tree with the visible=false children
\* deleted: the same children rendered, the same marker, the same count.
C2_InvisibleSkipped ==
    out.status = "ok" =>
        /\ \A i \in 1..Len(out.lines) : out.lines[i].id \notin InvisibleIds(out.node)
        /\ out.lines = GenerateCode(out.fw, StripInvisible(out.node), out.cname).lines

\* C3: depth limit.  In every renderer the root is at depth 0, each level of
\* recursion adds 1, and no node deeper than MAX_DEPTH below the root
\* contributes a line to the output (in the chains a node's id is its depth).
C3_DepthLimit ==
    out.status = "ok" =>
        \A x \in NodesAt(out.node, 0) :
            x.d > MAX_DEPTH => ~\E i \in 1..Len(out.lines) : out.lines[i].id = IdOf(x.n)

\* a node whose type is absent or is not a recognized type
IsUnknownType(n) == Get(n, "type", "") \notin KnownTypes

\* the renderers that render the children of the root
TreeRenderers == RecursiveRenderers \cup {"swiftui", "kotlin"}

\* C4: unknown node types.  A renderer handed a tree with a node of an absent
\* or unrecognized type returns normally and its output has a placeholder for
\* that node.  Stated for the root in every renderer and for a child of the
\* root in every renderer that renders children, and counting any line
\* emitted for the node as its placeholder.
C4_UnknownTypePlaceholder ==
    out.fw # "none" =>
        \A x \in NodesAt(out.node, 0) :
            (IsUnknownType(x.n) /\ (x.d = 0 \/ (x.d = 1 /\ out.fw \in TreeRenderers))) =>
                /\ out.status = "ok"
                /\ \E i \in 1..Len(out.lines) : out.lines[i].id = IdOf(x.n)

\* C5: missing attributes are absorbed by defaults.  Whatever subset of the
\* optional attributes of the node is absent, every generate function
\* returns a result and none raises.
C5_MissingAttributesAbsorbed == out.fw # "none" => out.status = "ok"

\* the kinds of the lines that declare a stroke or border
StrokeKinds == {"border", ".overlay", ".stroke"}

\* the node has a stroke with a visible paint
HasVisibleStroke(n) ==
    \E i \in 1..Len(Get(n, "strokes", <<>>)) : Get(n.strokes[i], "visible", TRUE)

\* C8: dashed and solid strokes are exclusive render paths.  For every node
\* with a visible stroke and every stroke or border declaration a renderer
\* emits for it, the declaration is dashed when strokeDashes is non-empty
\* and is not dashed when strokeDashes is absent or empty.
C8_DashedOrSolid ==
    out.status = "ok" =>
        \A x \in NodesAt(out.node, 0) :
            HasVisibleStroke(x.n) =>
                \A i \in 1..Len(out.lines) :
                    (out.lines[i].id = IdOf(x.n) /\ out.lines[i].k \in StrokeKinds) =>
                        (out.lines[i].s = "dashed" <=> Get(x.n, "strokeDashes", <<>>) # <<>>)

\* the node has a visible effect of the given type
HasVisibleEffect(n, type) ==
    \E i \in 1..Len(Get(n, "effects", <<>>)) :
        Get(n.effects[i], "visible", TRUE) /\ Get(n.effects[i], "type", "") = type

\* a line that blurs the node itself / that blurs what lies behind it
IsForegroundBlur(t) == t.k \in {"filter", ".blur"}
IsBackdropBlur(t) == t.k = "backdrop-filter" \/ (t.k = "comment" /\ t.s = "Background blur")

\* C9: the two blur kinds are never rendered with the same modifier.  For a
\* node whose visible blur effects are all BACKGROUND_BLUR no renderer emits
\* a foreground-blur line, and for a node whose visible blur effects are all
\* LAYER_BLUR no renderer emits a backdrop-blur line.
C9_BlurKindsApart ==
    out.status = "ok" =>
        \A x \in NodesAt(out.node, 0) : \A i \in 1..Len(out.lines) :
            out.lines[i].id = IdOf(x.n) =>
                /\ (HasVisibleEffect(x.n, "BACKGROUND_BLUR") /\ ~HasVisibleEffect(x.n, "LAYER_BLUR"))
                      => ~IsForegroundBlur(out.lines[i])
                /\ (HasVisibleEffect(x.n, "LAYER_BLUR") /\ ~HasVisibleEffect(x.n, "BACKGROUND_BLUR"))
                      => ~IsBackdropBlur(out.lines[i])

\* a line that declares a shadow / that marks a shadow as inner
IsShadow(t) == t.k \in {"box-shadow", ".shadow"} \/ (t.k = "comment" /\ t.s = "Inner shadow")
IsInsetMarker(t) == (t.k = "box-shadow" /\ t.s = "inset") \/ (t.k = "comment" /\ t.s = "Inner shadow")

\* C10: shadow inset marker.  When a renderer emits shadow lines for a node
\* with a visible INNER_SHADOW, alone or beside DROP_SHADOW effects, one of
\* them is an inset marker; for a node without a visible INNER_SHADOW no
\* line is an inset marker.
C10_InsetMarker ==
    out.status = "ok" =>
        \A x \in NodesAt(out.node, 0) :
            LET own == {i \in 1..Len(out.lines) : out.lines[i].id = IdOf(x.n)}
            IN  IF HasVisibleEffect(x.n, "INNER_SHADOW")
                THEN (\E i \in own : IsShadow(out.lines[i]))
                         => \E i \in own : IsInsetMarker(out.lines[i])
                ELSE \A i \in own : ~IsInsetMarker(out.lines[i])

---------------------------------------------------------------------------
(* Per-side stroke weights and paddings *)

\* the four sides, in the order top, right, bottom, left
Sides == <<"top", "right", "bottom", "left">>
\* the side a line of the output names: leading / start is left, trailing /
\* end is right
SideOf(s) ==
    IF s \in {"leading", "start"} THEN "left"
    ELSE IF s \in {"trailing", "end"} THEN "right" ELSE s

SideWeightKeys == <<"strokeTopWeight", "strokeRightWeight", "strokeBottomWeight", "strokeLeftWeight">>
PaddingKeys == <<"paddingTop", "paddingRight", "paddingBottom", "paddingLeft">>

\* the per-side stroke weights drawn: those of the fixture and four distinct ones
SideWeights == {<<2, 0, 4, 0>>, <<1, 2, 3, 4>>}
\* the per-side paddings drawn: every side 0, 4 or 8
SidePaddings == [1..4 -> {0, 4, 8}]

\* a node with a visible stroke, a uniform strokeWeight and per-side weights w
WithSideWeights(t, w) ==
    [type |-> t, absoluteBoundingBox |-> Box(40, 30),
     strokes |-> <<Solid(Black)>>, strokeWeight |-> 1,
     strokeTopWeight |-> w[1], strokeRightWeight |-> w[2],
     strokeBottomWeight |-> w[3], strokeLeftWeight |-> w[4]]

\* an auto-layout container with the paddings p
WithPaddings(p) ==
    [type |-> "FRAME", absoluteBoundingBox |-> Box(40, 30), layoutMode |-> "VERTICAL",
     paddingTop |-> p[1], paddingRight |-> p[2], paddingBottom |-> p[3], paddingLeft |-> p[4]]

SideTrees ==
    {Under(0, levels, WithSideWeights(t, w)) :
        levels \in 0..1, t \in {"FRAME", "RECTANGLE"}, w \in SideWeights}
    \cup {Under(0, levels, WithPaddings(p)) : levels \in 0..1, p \in SidePaddings}

\* the four values of the keys, when the node carries all four and they are
\* not all equal; <<>> otherwise
FourOf(n, keys) ==
    IF \A i \in 1..4 : Has(n, keys[i])
    THEN LET v == [i \in 1..4 |-> n[keys[i]]]
         IN  IF \E i \in 2..4 : v[i] # v[1] THEN v ELSE <<>>
    ELSE <<>>

\* every line of the given kinds emitted for the node names one side and
\* carries that side's value
EachSideItsOwn(lines, id, kinds, v) ==
    \A i \in 1..Len(lines) :
        (lines[i].id = id /\ lines[i].k \in kinds) =>
            \E j \in 1..4 : SideOf(lines[i].s) = Sides[j] /\ lines[i].v = v[j]

\* every side with a non-zero value has its line
NoSideDropped(lines, id, kinds, v) ==
    \A j \in 1..4 :
        v[j] # 0 => \E i \in 1..Len(lines) :
            /\ lines[i].id = id /\ lines[i].k \in kinds
            /\ SideOf(lines[i].s) = Sides[j] /\ lines[i].v = v[j]

\* C11: per-side weights are never collapsed.  For a node with four per-side
\* stroke weights and a visible stroke, every stroke or border line a
\* renderer emits for it carries the weight of one side, side by side; for
\* a node with four paddings that are not all equal, every padding line
\* carries the padding of its side and no non-zero side is left out.
C11_SidesKept ==
    out.status = "ok" =>
        \A x \in NodesAt(out.node, 0) :
            LET w == FourOf(x.n, SideWeightKeys)
                p == FourOf(x.n, PaddingKeys)
                paints == \E i \in 1..Len(out.lines) :
                              out.lines[i].id = IdOf(x.n) /\ out.lines[i].k \in {"padding", ".padding"}
            IN  /\ (w # <<>> /\ HasVisibleStroke(x.n)) =>
                      EachSideItsOwn(out.lines, IdOf(x.n), StrokeKinds, w)
                /\ (p # <<>> /\ paints) =>
                      /\ EachSideItsOwn(out.lines, IdOf(x.n), {"padding", ".padding"}, p)
                      /\ NoSideDropped(out.lines, IdOf(x.n), {"padding", ".padding"}, p)


---------------------------------------------------------------------------
(* Fill layers *)

MaxFills == 3
White == [r |-> 1000, g |-> 1000, b |-> 1000, a |-> 100]
\* a linear gradient paint with two stops
LinearPaint ==
    [type |-> "GRADIENT_LINEAR",
     gradientStops |-> <<[color |-> Black, position |-> 0], [color |-> White, position |-> 1000]>>]
\* the paints drawn: two solid colours, a hidden one and a gradient
Paints ==
    {Solid(Black), Solid(White), [type |-> "SOLID", color |-> White, visible |-> FALSE],
     LinearPaint}
\* the fill lists of up to max_len paints
FillLists(max_len) == UNION {[1..len -> Paints] : len \in 0..max_len}

FillTrees(lists) ==
    {Under(0, levels, [type |-> t, absoluteBoundingBox |-> Box(40, 30), fills |-> fs]) :
        levels \in 0..1, t \in {"FRAME", "RECTANGLE"}, fs \in lists}

\* the visible fills of the node, in input order
VisibleFills(n) == SelectSeq(Get(n, "fills", <<>>), IsVisible)

\* a line that paints one fill layer of its node
IsPaint(t) ==
    \/ t.k \in {"background-color", "background", "layer"}
    \/ t.k = ".background" /\ t.s # "ZStack"
    \/ t.k = ".fill" /\ t.s \notin {"green", "blue"}
    \/ t.k = "Color" /\ t.s # "clear"
    \/ t.k = "comment" /\ t.s = "Gradient fill"

\* the positions of the lines that paint a fill layer of the node id
PaintsOf(lines, id) == {i \in 1..Len(lines) : lines[i].id = id /\ IsPaint(lines[i])}

\* C12: multi-fill layering.  When a renderer paints the background of a node
\* that has more than one visible fill layer, it paints every visible layer:
\* the output has one painted layer per visible fill, never the first alone.
C12_AllFillsLayered ==
    out.status = "ok" =>
        \A x \in NodesAt(out.node, 0) :
            (Len(VisibleFills(x.n)) > 1 /\ PaintsOf(out.lines, IdOf(x.n)) # {}) =>
                Cardinality(PaintsOf(out.lines, IdOf(x.n))) = Len(VisibleFills(x.n))


---------------------------------------------------------------------------
(* Colour extraction: _extract_fill_data, _extract_colors_from_node *)

\* _extract_fill_data(fill, node_name): None for a hidden fill
ExtractFillData(fill) ==
    IF ~Get(fill, "visible", TRUE) THEN None
    ELSE LET fill_type == Get(fill, "type", "SOLID")
             base_data == [category |-> "fill", fillType |-> fill_type,
                           opacity |-> Get(fill, "opacity", 100)]
         IN  IF fill_type = "SOLID"
             THEN Put(base_data, "color", RgbaToHex(Get(fill, "color", EmptyDict)))
             ELSE base_data

RECURSIVE FillEntries(_, _)
\* the fill loop of _extract_colors_from_node
FillEntries(fills, i) ==
    IF i > Len(fills) THEN <<>>
    ELSE LET fill_data == ExtractFillData(fills[i])
         IN  (IF IsNone(fill_data) THEN <<>> ELSE <<fill_data>>) \o FillEntries(fills, i + 1)

\* the stroke loop of _extract_colors_from_node
StrokeEntries(n) ==
    LET stroke_data == ExtractStrokeData(n)
    IN  IF IsNone(stroke_data) THEN <<>>
        ELSE [i \in 1..Len(stroke_data.colors) |->
                LET stroke_color == stroke_data.colors[i]
                    entry == [category |-> "stroke", fillType |-> stroke_color.type,
                              opacity |-> stroke_color.opacity]
                IN  IF Has(stroke_color, "color")
                    THEN Put(entry, "color", stroke_color.color) ELSE entry]

\* the shadow loop of _extract_colors_from_node
ShadowEntries(n) ==
    LET shadows == ExtractEffectsData(n).shadows
    IN  [i \in 1..Len(shadows) |->
            [category |-> "shadow", fillType |-> "SOLID", opacity |-> 100,
             color |-> shadows[i].color]]

RECURSIVE ExtractColorsFromNode(_)
\* _extract_colors_from_node(node, colors): what it appends to colors, each
\* entry with the id of the node it was taken from
ExtractColorsFromNode(n) ==
    LET own == FillEntries(Get(n, "fills", <<>>), 1) \o StrokeEntries(n) \o ShadowEntries(n)
        children == ChildrenOf(n)
    IN  [i \in 1..Len(own) |-> Put(own[i], "id", IdOf(n))]
        \o Concat([i \in 1..Len(children) |-> ExtractColorsFromNode(children[i])])

\* a call of _extract_colors_from_node on the fetched tree
ExtractColors ==
    /\ res' = [tool |-> "extract_colors", status |-> "ok", colors |-> ExtractColorsFromNode(node)]
    /\ UNCHANGED <<node, cname, out, memo, store, clock>>

MaxLayers == 2
\* a half-transparent red
HalfRed == [r |-> 1000, g |-> 0, b |-> 0, a |-> 50]
LayerPaints ==
    {Solid(Black), Solid(HalfRed), [type |-> "SOLID", color |-> White, visible |-> FALSE],
     LinearPaint}
\* the fill and stroke lists of up to max_len layers
LayerLists(max_len) == UNION {[1..len -> LayerPaints] : len \in 0..max_len}

\* nodes with fill layers, stroke layers and a shadow, at the root or below it
LayerTrees(lists) ==
    {Under(0, levels, [type |-> "RECTANGLE", absoluteBoundingBox |-> Box(40, 30),
                       fills |-> fs, strokes |-> ss,
                       effects |-> <<[type |-> "DROP_SHADOW", radius |-> 4, color |-> HalfRed]>>]) :
        levels \in 0..1, fs \in lists, ss \in lists}

InitExtract == InitWith(LayerTrees(LayerLists(MaxLayers)), {"Card"}, MemoOff)
SpecExtract == InitExtract /\ [][ExtractColors]_vars

\* C13: hex view of a colour.  Every colour string the extraction hands out
\* is '#' and 6 hex digits when the alpha of the colour is 1, and '#' and 8
\* hex digits when it is below 1; it is never an rgba(...) string.
C13_HexView ==
    res.tool = "extract_colors" =>
        \A i \in 1..Len(res.colors) :
            Has(res.colors[i], "color") =>
                res.colors[i].color.form = (IF res.colors[i].color.a < 100 THEN "hex8" ELSE "hex6")

---------------------------------------------------------------------------
(* Radial gradients *)

\* a radial gradient paint with two stops
RadialPaint ==
    [type |-> "GRADIENT_RADIAL",
     gradientStops |-> <<[color |-> Black, position |-> 0], [color |-> White, position |-> 1000]>>]

\* the sizes drawn: the 300x150 and 100x100 of the tests, an odd width, and
\* the one size whose half is 200
GradientBoxes == {Box(300, 150), Box(100, 100), Box(301, 150), Box(150, 400)}

GradientTrees ==
    {Under(0, levels, [type |-> t, absoluteBoundingBox |-> b, fills |-> fs]) :
        levels \in 0..1, t \in {"FRAME", "RECTANGLE"}, b \in GradientBoxes,
        fs \in {<<RadialPaint>>, <<Solid(Black), RadialPaint>>, <<>>}}

\* twice the values max(w, h) / 2 may round to
TwiceRounded(m) == {2 * (m \div 2), 2 * ((m + 1) \div 2)}

\* C14: radial gradient radius.  Every end radius a renderer emits for a
\* node that has a bounding box of width w and height h is max(w, h) / 2,
\* rounded; the fixed 200 is not emitted for a node with dimensions.
C14_RadialRadius ==
    out.status = "ok" =>
        \A x \in NodesAt(out.node, 0) : \A i \in 1..Len(out.lines) :
            (out.lines[i].id = IdOf(x.n) /\ out.lines[i].k = "endRadius"
                /\ Has(x.n, "absoluteBoundingBox")) =>
                out.lines[i].v \in TwiceRounded(Max(BoxWidth(x.n), BoxHeight(x.n)))


\* the child cap of the target family of a renderer: 20 for the web, 15 for
\* the native targets
FamilyCap(fw) ==
    IF fw \in {"swiftui", "kotlin", "swiftui_recursive"}
    THEN MAX_NATIVE_CHILDREN_LIMIT ELSE MAX_CHILDREN_LIMIT

\* the container whose children the renderer walks: the generators of
\* figma_mcp.py for the native targets render the children of the root only
CappedContainer(fw, n) == IF fw \in {"swiftui", "kotlin"} THEN n ELSE ListContainer(n)

\* the children of the container that have a line of their own in the output
RenderedChildren(lines, c) ==
    {id \in {IdOf(ChildrenOf(c)[i]) : i \in 1..Len(ChildrenOf(c))} :
        \E i \in 1..Len(lines) : lines[i].id = id /\ lines[i].k # "truncated"}

\* C15: child caps are fixed per target family.  A renderer that renders
\* children renders at most 20 of a container's children for a web target
\* and at most 15 for a native one, and the cap it applies is that number:
\* a container with at least that many visible children has exactly that
\* many rendered.
C15_FamilyCaps ==
    (out.status = "ok" /\ out.fw \in TreeRenderers) =>
        LET c == CappedContainer(out.fw, out.node)
            N == FamilyCap(out.fw)
            rendered == RenderedChildren(out.lines, c)
        IN  /\ Cardinality(rendered) <= N
            /\ Len(VisibleIds(ChildrenOf(c))) >= N => Cardinality(rendered) = N

---------------------------------------------------------------------------
(* Layout containers *)

ContainerTypes == {"FRAME", "GROUP", "COMPONENT", "COMPONENT_SET", "INSTANCE", "SECTION"}

\* a container of type t with one child, with the layoutMode m or, for
\* m = "", without one
WithLayout(t, m) ==
    LET base == [type |-> t, absoluteBoundingBox |-> Box(40, 30),
                 children |-> <<[id |-> 9, type |-> "RECTANGLE"]>>]
    IN  IF m = "" THEN base ELSE Put(base, "layoutMode", m)

LayoutTrees ==
    {Under(0, levels, WithLayout(t, m)) :
        levels \in 0..2, t \in ContainerTypes, m \in {"VERTICAL", "HORIZONTAL", "NONE", ""}}

NativeRenderers == {"swiftui", "kotlin", "swiftui_recursive"}

\* the stacking primitive of a target for a layoutMode
StackFor(fw, layout_mode) ==
    IF fw = "kotlin"
    THEN (IF layout_mode = "VERTICAL" THEN "Column"
          ELSE IF layout_mode = "HORIZONTAL" THEN "Row" ELSE "Box")
    ELSE (IF layout_mode = "VERTICAL" THEN "VStack"
          ELSE IF layout_mode = "HORIZONTAL" THEN "HStack" ELSE "ZStack")

\* C16: layout mode selects the container primitive.  In every native
\* renderer, every container node with children that the renderer renders
\* is rendered as the stack its layoutMode selects: the column stack for
\* VERTICAL, the row stack for HORIZONTAL, the overlap stack otherwise.
C16_LayoutSelectsStack ==
    (out.status = "ok" /\ out.fw \in NativeRenderers) =>
        \A x \in NodesAt(out.node, 0) :
            (/\ Get(x.n, "type", "") \in ContainerTypes
             /\ ChildrenOf(x.n) # <<>>
             /\ \E i \in 1..Len(out.lines) : out.lines[i].id = IdOf(x.n)) =>
                \E i \in 1..Len(out.lines) :
                    /\ out.lines[i].id = IdOf(x.n)
                    /\ out.lines[i].k = "stack"
                    /\ out.lines[i].s = StackFor(out.fw, Get(x.n, "layoutMode", ""))


---------------------------------------------------------------------------
(* Vector nodes: _swiftui_vector_node (src/generators/swiftui_generator.py),
   the VECTOR / BOOLEAN_OPERATION branch of _recursive_node_to_jsx
   (src/figma_mcp.py) *)

VectorTypes == {"VECTOR", "BOOLEAN_OPERATION"}
VectorBoxes == {Box(24, 24), Box(48, 48), Box(49, 20), Box(100, 60)}

\* a vector or boolean-operation node below one or two frames
VectorTrees ==
    {Under(0, levels, [type |-> t, absoluteBoundingBox |-> b]) :
        levels \in 1..2, t \in VectorTypes, b \in VectorBoxes}

\* line t is a placeholder for a vector node: the icon comment and empty
\* element of the JSX renderer, the empty element of the Vue template, the
\* Image or the commented Rectangle of the SwiftUI generator
IsVectorPlaceholder(t) ==
    \/ t.k \in {"icon", "Image", "div"}
    \/ t.k = "comment" /\ t.s = "Vector"

\* line i gives the dimension `dim` of node id the value v
SizedTo(lines, id, dim, v) ==
    \E i \in 1..Len(lines) :
        /\ lines[i].id = id
        /\ lines[i].v = v
        /\ \/ lines[i].k = dim
           \/ lines[i].k = ".frame" /\ lines[i].s = dim

\* C17: vector dispatch.  For every VECTOR and every BOOLEAN_OPERATION node
\* below the root, each renderer that renders the tree writes a placeholder
\* for the node, sized to the node's bounding box, and writes no
\* unsupported-type comment for it.
C17_VectorPlaceholder ==
    (out.status = "ok" /\ out.fw \in TreeRenderers) =>
        \A x \in NodesAt(out.node, 0) :
            (x.d >= 1 /\ Get(x.n, "type", "") \in VectorTypes) =>
                /\ \E i \in 1..Len(out.lines) :
                       out.lines[i].id = IdOf(x.n) /\ IsVectorPlaceholder(out.lines[i])
                /\ SizedTo(out.lines, IdOf(x.n), "width", BoxWidth(x.n))
                /\ SizedTo(out.lines, IdOf(x.n), "height", BoxHeight(x.n))
                /\ \A i \in 1..Len(out.lines) :
                       out.lines[i].id = IdOf(x.n) => out.lines[i].s # "Unsupported"

\* nodes with per-side weights, paddings, fills, gradients, layouts, vectors
\* and corner radii
StyleTrees == SideTrees \cup FillTrees(FillLists(MaxFills)) \cup GradientTrees \cup LayoutTrees \cup VectorTrees
InitStyle == InitWith(StyleTrees, {"Card"}, MemoOff)
SpecStyle == InitStyle /\ [][Render]_vars

---------------------------------------------------------------------------
(* The tool figma_generate_code (src/figma_mcp.py): the component name it
   derives, and the generator it dispatches to.  A name is a sequence of
   characters. *)

LowerLetters == <<"a", "b", "c", "e", "m", "n", "o", "p", "t">>
UpperLetters == <<"A", "B", "C", "E", "M", "N", "O", "P", "T">>
Digits == {"0", "1", "2", "3", "4", "5", "6", "7", "8", "9"}
IsLower(c) == c \in Range(LowerLetters)
IsUpper(c) == c \in Range(UpperLetters)
\* str.isalpha on one ASCII character
IsAlpha(c) == IsLower(c) \/ IsUpper(c)
\* the class [a-zA-Z0-9]
IsAlnum(c) == IsAlpha(c) \/ c \in Digits
LetterIndex(c, letters) == CHOOSE i \in 1..Len(letters) : letters[i] = c
\* str.upper / str.lower on one character
UpperChar(c) == IF IsLower(c) THEN UpperLetters[LetterIndex(c, LowerLetters)] ELSE c
LowerChar(c) == IF IsUpper(c) THEN LowerLetters[LetterIndex(c, UpperLetters)] ELSE c
\* str.lower
Lower(name) == [i \in 1..Len(name) |-> LowerChar(name[i])]

\* str.title: a letter is upper-cased when it follows a character that is not
\* a letter (or starts the string), and lower-cased when it follows a letter
Title(name) ==
    [i \in 1..Len(name) |->
        IF i > 1 /\ IsAlpha(name[i - 1]) THEN LowerChar(name[i]) ELSE UpperChar(name[i])]

RECURSIVE StripWhitespace(_)
\* str.strip, which str_strip_whitespace applies to the string parameters
StripWhitespace(name) ==
    IF name = <<>> THEN <<>>
    ELSE IF Head(name) = " " THEN StripWhitespace(Tail(name))
    ELSE IF name[Len(name)] = " " THEN StripWhitespace(SubSeq(name, 1, Len(name) - 1))
    ELSE name

\* re.sub(r'[^a-zA-Z0-9]', '', name)
StripNonAlnum(name) == SelectSeq(name, IsAlnum)

\* the default word
ComponentWord == <<"C", "o", "m", "p", "o", "n", "e", "n", "t">>

\* the frameworks of CodeFramework
CodeFrameworks ==
    {"react", "react_tailwind", "vue", "vue_tailwind", "html_css", "tailwind_only",
     "css", "scss", "swiftui", "kotlin"}

\* the SOLID first fill of the two inline frameworks
FirstSolidToks(n) ==
    LET fills == Get(n, "fills", <<>>)
    IN  IF fills # <<>> /\ Get(fills[1], "type", "") = "SOLID"
        THEN LET c == RgbaToHex(Get(fills[1], "color", EmptyDict))
             IN  <<Tok("background-color", IdOf(n), ColorCode(c), c.form)>>
        ELSE <<>>

\* the dispatch of figma_generate_code on the framework
DispatchFramework(fw, n, component_name) ==
    IF fw \in {"react", "react_tailwind"}
    THEN GenerateReactCode(n, component_name, fw = "react_tailwind").lines
    ELSE IF fw \in {"vue", "vue_tailwind"}
    THEN GenerateVueCode(n, component_name, fw = "vue_tailwind").lines
    ELSE IF fw = "tailwind_only"
    THEN <<Tok("width", IdOf(n), BoxWidth(n), ""), Tok("height", IdOf(n), BoxHeight(n), "")>>
         \o FirstSolidToks(n)
    ELSE IF fw = "css" THEN GenerateCssCode(n, component_name).lines
    ELSE IF fw = "scss" THEN GenerateScssCode(n, component_name).lines
    ELSE IF fw = "swiftui" THEN McpGenerateSwiftuiCode(n, component_name).lines
    ELSE IF fw = "kotlin" THEN McpGenerateKotlinCode(n, component_name).lines
    ELSE <<Tok("comment", -1, 0, component_name), Tok("div", -1, 0, Lower(component_name)),
           Tok("rule", -1, 0, Lower(component_name)),
           Tok("width", IdOf(n), BoxWidth(n), ""), Tok("height", IdOf(n), BoxHeight(n), "")>>
         \o FirstSolidToks(n)

\* an Optional[str]: <<>> is None, <<s>> is the string s
NoName == <<>>
SomeName(s) == <<s>>

\* the name the request carries after validation: None, or the stripped string
RequestedName == IF cname = NoName THEN NoName ELSE SomeName(StripWhitespace(cname[1]))

\* params.component_name or node.get('name', 'Component')
ChosenName ==
    IF RequestedName # NoName /\ RequestedName[1] # <<>> THEN RequestedName[1]
    ELSE Get(node, "name", ComponentWord)

\* figma_generate_code(params), the node found.  component_name[0] of an
\* empty string raises IndexError, which the handler turns into its error
\* string.
FigmaGenerateCode ==
    \E fw \in CodeFrameworks :
        LET stripped == StripNonAlnum(Title(ChosenName))
            component_name == IF ~IsAlpha(stripped[1]) THEN ComponentWord \o stripped
                              ELSE stripped
        IN  /\ res' = IF stripped = <<>>
                      THEN [tool |-> "figma_generate_code", status |-> "error",
                            error |-> "IndexError"]
                      ELSE [tool |-> "figma_generate_code", status |-> "ok",
                            framework |-> fw, component_name |-> component_name,
                            lines |-> DispatchFramework(fw, node, component_name)]
            /\ UNCHANGED <<node, cname, out, memo, store, clock>>

\* the characters names are made of, and their longest length
NameChars == {"a", "B", "1", "-", " "}
MaxName == 3
\* the strings of at most max_len characters
Names(max_len) == UNION {[1..len -> NameChars] : len \in 0..max_len}
\* the nodes of the name check: without a name, and with names
NamedTrees ==
    {[id |-> 0, type |-> "FRAME", absoluteBoundingBox |-> Box(40, 30)]}
    \cup {[id |-> 0, type |-> "FRAME", absoluteBoundingBox |-> Box(40, 30), name |-> nm] :
            nm \in {<<>>, <<"a", " ", "b">>, <<"1", "a">>, <<"-">>}}

InitName ==
    InitWith(NamedTrees, {SomeName(s) : s \in Names(MaxName)} \cup {NoName}, MemoOff)
SpecName == InitName /\ [][FigmaGenerateCode]_vars

\* the identifier the claim describes for the name `name`
SanitizedName(name) ==
    LET stripped == StripNonAlnum(name)
    IN  IF stripped = <<>> \/ ~IsAlpha(stripped[1]) THEN ComponentWord \o stripped
        ELSE stripped

\* C18: component-name sanitization.  For every requested name and every
\* fallback node name, generation succeeds, and the name used in the code is
\* non-empty, made of ASCII letters and digits only, starts with a letter,
\* and is (up to the case of its letters) the chosen name with every
\* non-alphanumeric character stripped, prefixed with the default word when
\* the stripped name does not start with a letter.
C18_NameSanitized ==
    res.tool = "figma_generate_code" =>
        /\ res.status = "ok"
        /\ res.component_name # <<>>
        /\ \A i \in 1..Len(res.component_name) : IsAlnum(res.component_name[i])
        /\ IsAlpha(res.component_name[1])
        /\ Lower(res.component_name) = Lower(SanitizedName(ChosenName))

---------------------------------------------------------------------------
(* The RoundedCorner helper shape: generate_swiftui_code
   (src/generators/swiftui_generator.py), _generate_swiftui_code
   (src/figma_mcp.py) *)

\* corner attributes: none, one radius, four equal radii, four radii that differ
CornerAttrs ==
    {EmptyDict, [cornerRadius |-> 4], [rectangleCornerRadii |-> <<4, 4, 4, 4>>],
     [rectangleCornerRadii |-> <<4, 0, 4, 0>>]}

WithAttrs(base, attrs) ==
    [k \in DOMAIN base \cup DOMAIN attrs |-> IF k \in DOMAIN attrs THEN attrs[k] ELSE base[k]]

\* shapes and frames with corner attributes, and texts that say RoundedCorner,
\* below zero to two frames
CornerTrees ==
    {Under(0, levels, WithAttrs([type |-> t, absoluteBoundingBox |-> Box(40, 30)], c)) :
        levels \in 0..2, t \in {"RECTANGLE", "FRAME"}, c \in CornerAttrs}
    \cup {Under(0, levels, [type |-> "TEXT", characters |-> txt]) :
            levels \in 1..2, txt \in {"Hello", "RoundedCorner"}}
CornerNames == {"Card", "RoundedCorner"}

InitCorner == InitWith(CornerTrees, CornerNames, MemoOff)
SpecCorner == InitCorner /\ [][Render]_vars

SwiftuiRenderers == {"swiftui", "swiftui_recursive"}

\* some rendered node is clipped to the RoundedCorner shape
UsesRoundedCorner(lines) ==
    \E i \in 1..Len(lines) : lines[i].k = ".clipShape" /\ lines[i].s = "RoundedCorner"

\* C19: rounded-corner helper.  The SwiftUI output holds the definition of
\* the RoundedCorner helper shape exactly once when some rendered node of the
\* tree is clipped to non-uniform corner radii, and not at all otherwise,
\* whatever the texts and the component name say.
C19_HelperIffUsed ==
    (out.status = "ok" /\ out.fw \in SwiftuiRenderers) =>
        CountTok(out.lines, "RoundedCornerShape")
            = (IF UsesRoundedCorner(out.lines) THEN 1 ELSE 0)

---------------------------------------------------------------------------
(* Layer order: the fill and stroke loops of _extract_colors_from_node and
   _extract_stroke_data (src/figma_mcp.py), the ZStack of
   _swiftui_fill_modifier (src/generators/swiftui_generator.py) *)

\* nodes with fill and stroke layers, rendered and extracted
InitLayers == InitWith(LayerTrees(LayerLists(MaxLayers)), {"Card"}, MemoOff)
LayersNext ==
    \/ Render
    \/ ExtractColors
SpecLayers == InitLayers /\ [][LayersNext]_vars

\* the entries of one category extracted from the node id, in order
EntriesOf(colors, id, category) ==
    SelectSeq(colors, LAMBDA e : e.id = id /\ e.category = category)

\* the entries are the visible layers, one for one and in input order
SameLayers(entries, layers) ==
    LET visible == SelectSeq(layers, IsVisible)
    IN  /\ Len(entries) = Len(visible)
        /\ \A i \in 1..Len(visible) :
               /\ entries[i].fillType = Get(visible[i], "type", "SOLID")
               /\ Get(visible[i], "type", "SOLID") = "SOLID" =>
                      entries[i].color = RgbaToHex(Get(visible[i], "color", EmptyDict))

\* the input positions of the fill layers of the node id, in the order the
\* ZStack lists them: the first listed is painted lowest
StackedLayers(lines, id) ==
    LET layers == SelectSeq(lines, LAMBDA t : t.id = id /\ t.k = "layer")
    IN  [i \in 1..Len(layers) |-> layers[i].v]

\* C20: layer order is preserved.  For every node, the extracted fills and
\* the extracted strokes are the input layers whose visible is not false, in
\* input order, and a multi-fill ZStack lists the layers in that same order,
\* the first fill lowest.
C20_LayerOrder ==
    /\ res.tool = "extract_colors" =>
           \A x \in NodesAt(node, 0) :
               /\ SameLayers(EntriesOf(res.colors, IdOf(x.n), "fill"), Get(x.n, "fills", <<>>))
               /\ SameLayers(EntriesOf(res.colors, IdOf(x.n), "stroke"),
                             Get(x.n, "strokes", <<>>))
    /\ out.status = "ok" =>
           \A x \in NodesAt(out.node, 0) :
               LET stacked == StackedLayers(out.lines, IdOf(x.n))
               IN  \A i, j \in 1..Len(stacked) : i < j => stacked[i] < stacked[j]

---------------------------------------------------------------------------
(* Corner radius extraction: _extract_corner_radii (src/figma_mcp.py) *)

\* a call of _extract_corner_radii on the fetched node
ExtractCorners ==
    /\ res' = [tool |-> "extract_corner_radii", status |-> "ok",
               radii |-> ExtractCornerRadii(node)]
    /\ UNCHANGED <<node, cname, out, memo, store, clock>>

MaxRadii == 4
\* the per-corner lists of up to max_len radii
RadiiLists(max_len) == UNION {[1..len -> {0, 4}] : len \in 0..max_len}
\* nodes with and without per-corner radii, with and without a single radius
RadiiTrees(lists) ==
    LET base == [id |-> 0, type |-> "RECTANGLE"]
        single == {base, Put(base, "cornerRadius", 0), Put(base, "cornerRadius", 8)}
    IN  single \cup {Put(b, "rectangleCornerRadii", radii) : b \in single, radii \in lists}

InitRadii == InitWith(RadiiTrees(RadiiLists(MaxRadii)), {"Card"}, MemoOff)
SpecRadii == InitRadii /\ [][ExtractCorners]_vars

\* element i of the per-corner list, 0 where the list is too short
RadiusAt(radii, i) == IF Len(radii) >= i THEN radii[i] ELSE 0

\* C21: corner radius extraction.  When the node has per-corner radii, the
\* four values returned are those of the per-corner list, whatever the single
\* cornerRadius says; and isUniform is true exactly when the four values
\* returned are all equal, for per-corner lists of any length.
C21_CornerRadii ==
    res.tool = "extract_corner_radii" =>
        /\ Has(node, "rectangleCornerRadii") =>
               /\ ~IsNone(res.radii)
               /\ res.radii.topLeft = RadiusAt(node.rectangleCornerRadii, 1)
               /\ res.radii.topRight = RadiusAt(node.rectangleCornerRadii, 2)
               /\ res.radii.bottomRight = RadiusAt(node.rectangleCornerRadii, 3)
               /\ res.radii.bottomLeft = RadiusAt(node.rectangleCornerRadii, 4)
        /\ ~IsNone(res.radii) =>
               (res.radii.isUniform <=>
                    /\ res.radii.topLeft = res.radii.topRight
                    /\ res.radii.topRight = res.radii.bottomRight
                    /\ res.radii.bottomRight = res.radii.bottomLeft)

---------------------------------------------------------------------------
(* Effects partition: _extract_effects_data (src/figma_mcp.py) *)

\* a call of _extract_effects_data on the fetched node
ExtractEffects ==
    /\ res' = [tool |-> "extract_effects_data", status |-> "ok",
               effects |-> ExtractEffectsData(node)]
    /\ UNCHANGED <<node, cname, out, memo, store, clock>>

MaxTagged == 3
\* the effect types of the Figma API; the last two are neither shadow nor blur
ApiEffectTypes == EffectTypes \cup {"NOISE", "TEXTURE"}
\* one effect of a given type at position i, hidden or not
TaggedEffect(t, i, hidden) ==
    IF hidden THEN [type |-> t, radius |-> i, visible |-> FALSE] ELSE [type |-> t, radius |-> i]
\* the effect lists of up to max_len effects: the radius tells the position,
\* so that every effect of a list can be told from the others
TaggedLists(max_len) ==
    UNION {{[i \in 1..len |-> TaggedEffect(ts[i], i, i \in h)] :
               ts \in [1..len -> ApiEffectTypes], h \in SUBSET (1..len)} : len \in 0..max_len}
EffectNodes(lists) == {[id |-> 0, type |-> "RECTANGLE", effects |-> es] : es \in lists}

InitEffects == InitWith(EffectNodes(TaggedLists(MaxTagged)), {"Card"}, MemoOff)
SpecEffects == InitEffects /\ [][ExtractEffects]_vars

\* the word in the name of an effect type
WordOf(t) ==
    IF t \in {"DROP_SHADOW", "INNER_SHADOW"} THEN "SHADOW"
    ELSE IF t \in {"LAYER_BLUR", "BACKGROUND_BLUR"} THEN "BLUR"
    ELSE ""

\* type and position of the entries of a partition
TagsOf(entries) == [i \in 1..Len(entries) |-> [type |-> entries[i].type, at |-> entries[i].radius]]

\* the visible effects with the word in their type, in input order
VisibleWith(effects, word) ==
    TagsOf(SelectSeq(effects, LAMBDA e : IsVisible(e) /\ WordOf(e.type) = word))

\* C22: effects partition.  The shadows partition holds exactly the visible
\* effects whose type says SHADOW and the blurs partition exactly the
\* visible effects whose type says BLUR, each in the order of the input; no
\* effect is in both and no invisible effect is in either.
C22_EffectsPartition ==
    res.tool = "extract_effects_data" =>
        /\ TagsOf(res.effects.shadows) = VisibleWith(node.effects, "SHADOW")
        /\ TagsOf(res.effects.blurs) = VisibleWith(node.effects, "BLUR")
        /\ Range(TagsOf(res.effects.shadows)) \cap Range(TagsOf(res.effects.blurs)) = {}

\* the extraction of a list with a visible shadow, a hidden effect and a
\* visible blur, shadow and blur both kept
C22_Partitioned ==
    /\ res.tool = "extract_effects_data"
    /\ Len(node.effects) = 3
    /\ \E i \in 1..3 : ~IsVisible(node.effects[i])
    /\ res.effects.shadows # <<>>
    /\ res.effects.blurs # <<>>

---------------------------------------------------------------------------
(* Auto-layout: _extract_auto_layout and the layout declarations of the
   renderers (src/figma_mcp.py) *)

\* _extract_auto_layout(node): None, or the layout record
ExtractAutoLayout(n) ==
    LET layout_mode == Get(n, "layoutMode", "")
    IN  IF layout_mode = "" \/ layout_mode = "NONE" THEN None
        ELSE [mode |-> layout_mode,
              padding |-> [top |-> Get(n, "paddingTop", 0), right |-> Get(n, "paddingRight", 0),
                           bottom |-> Get(n, "paddingBottom", 0),
                           left |-> Get(n, "paddingLeft", 0)],
              gap |-> Get(n, "itemSpacing", 0),
              primaryAxisAlign |-> Get(n, "primaryAxisAlignItems", "MIN"),
              counterAxisAlign |-> Get(n, "counterAxisAlignItems", "MIN")]

\* a call of _extract_auto_layout on the fetched node
ExtractLayout ==
    /\ res' = [tool |-> "extract_auto_layout", status |-> "ok",
               layout |-> ExtractAutoLayout(node)]
    /\ UNCHANGED <<node, cname, out, memo, store, clock>>

\* the values of layoutMode in the Figma API, and "" for an absent one
LayoutModes == {"HORIZONTAL", "VERTICAL", "NONE", "GRID", ""}
\* containers of every layout mode, with a gap, at the root or below it
ModeTrees ==
    {Under(0, levels, Put(WithLayout(t, m), "itemSpacing", 8)) :
        levels \in 0..1, t \in {"FRAME", "INSTANCE"}, m \in LayoutModes}

InitLayout == InitWith(ModeTrees, {"Card"}, MemoOff)
LayoutNext ==
    \/ Render
    \/ ExtractLayout
SpecLayout == InitLayout /\ [][LayoutNext]_vars

IsAutoLayout(n) == Get(n, "layoutMode", "") \in {"HORIZONTAL", "VERTICAL"}

\* the declarations of an auto-layout: flex, direction, gap, alignment
AutoLayoutKinds == {"display", "flex-direction", "gap", "justify-content", "align-items"}

\* C23: auto-layout presence.  Extraction yields a layout record only for a
\* node whose layoutMode is HORIZONTAL or VERTICAL, and no renderer writes
\* flex, direction, gap or alignment declarations for a node whose
\* layoutMode is NONE, absent or any other value.
C23_AutoLayoutPresence ==
    /\ res.tool = "extract_auto_layout" => (~IsNone(res.layout) <=> IsAutoLayout(node))
    /\ out.status = "ok" =>
           \A x \in NodesAt(out.node, 0) :
               ~IsAutoLayout(x.n) =>
                   \A i \in 1..Len(out.lines) :
                       out.lines[i].id = IdOf(x.n) => out.lines[i].k \notin AutoLayoutKinds

---------------------------------------------------------------------------
(* Text colour: the TEXT branches of the renderers *)

\* text nodes with fill layers, below one or two frames
TextTrees(lists) ==
    {Under(0, levels, [type |-> "TEXT", style |-> [fontSize |-> 12], fills |-> fs]) :
        levels \in 1..2, fs \in lists}

InitText == InitWith(TextTrees(LayerLists(MaxLayers)), {"Card"}, MemoOff)
SpecText == InitText /\ [][Render]_vars

\* the positions of the lines that set the text colour of the node id
TextColorsOf(lines, id) ==
    {i \in 1..Len(lines) : lines[i].id = id /\ lines[i].k \in {"color", ".foregroundColor"}}

\* the colour, in the notation of either family of renderers
IsColorOf(v, color) == v \in {ColorCode(RgbaToHex(color)), SwiftColor(color)}

\* C24: text colour source.  For every TEXT node a renderer renders, the
\* text colour written is that of the first fill that is both visible and
\* SOLID, the invisible and non-solid fills before it skipped; without such
\* a fill no text colour is written.
C24_TextColor ==
    (out.status = "ok" /\ out.fw \in TreeRenderers) =>
        \A x \in NodesAt(out.node, 0) :
            (Get(x.n, "type", "") = "TEXT"
             /\ \E i \in 1..Len(out.lines) : out.lines[i].id = IdOf(x.n)) =>
                LET fills == Get(x.n, "fills", <<>>)
                    k == FirstSolidFill(fills, 1)
                    colors == TextColorsOf(out.lines, IdOf(x.n))
                IN  IF k = 0 THEN colors = {}
                    ELSE /\ colors # {}
                         /\ \A i \in colors :
                                IsColorOf(out.lines[i].v, Get(fills[k], "color", EmptyDict))

---------------------------------------------------------------------------
(* The Code Connect store: figma_get_code_connect_map,
   figma_add_code_connect_map, figma_remove_code_connect_map
   (src/figma_mcp.py) *)

\* the keys the tools are called with: two nodes of one file, one of another
StoreFiles == {"F1", "F2"}
StoreKeys == {<<"F1", "1:2">>, <<"F1", "3:4">>, <<"F2", "1:2">>}
StoreNames == {"Button", "Card"}

InitStore == InitWith({[id |-> 0, type |-> "FRAME"]}, {"Card"}, MemoOff)

\* the three tools called in any order, while time passes
StoreNext ==
    \/ \E key \in StoreKeys, component_name \in StoreNames :
          AddCodeConnectMap(key[1], key[2], component_name)
    \/ \E key \in StoreKeys : RemoveCodeConnectMap(key[1], key[2])
    \/ \E key \in StoreKeys \cup {<<f, "">> : f \in StoreFiles} :
          GetCodeConnectMap(key[1], key[2])
    \/ Tick
SpecStore == InitStore /\ [][StoreNext]_vars

\* the key has a mapping in the store s
Mapped(s, file_key, node_id) == file_key \in DOMAIN s /\ node_id \in DOMAIN s[file_key]

\* the node ids mapped for a file in the store s
MappedIds(s, file_key) == IF file_key \in DOMAIN s THEN DOMAIN s[file_key] ELSE {}

\* the tool result r is the answer to a get on the store s
GetAgrees(r, s) ==
    IF Has(r, "node_id")
    THEN IF Mapped(s, r.file_key, r.node_id)
         THEN r.status = "success" /\ Has(r, "mapping")
              /\ r.mapping = s[r.file_key][r.node_id]
         ELSE r.status = "not_found"
    ELSE /\ r.status = "success"
         /\ DOMAIN r.mappings = MappedIds(s, r.file_key)
         /\ \A node_id \in DOMAIN r.mappings : r.mappings[node_id] = s[r.file_key][node_id]
         /\ MappedIds(s, r.file_key) # {} =>
                Has(r, "count") /\ r.count = Cardinality(MappedIds(s, r.file_key))

\* the step is a call of the tool on the key that changed the result
Called(tool, key) ==
    /\ res' # res
    /\ res'.tool = tool
    /\ res'.file_key = key[1]
    /\ res'.node_id = key[2]

\* C25: Code Connect store round trip.  Starting from the empty store, an add
\* maps its key to the mapping it returns, a remove unmaps its key, and a key
\* keeps its mapping, or its want of one, through every step that is not an
\* add or a remove of that key; a get of a key returns that mapping exactly
\* when the key is mapped, and otherwise not_found or, for a file without
\* mappings, the empty set; a get of a file returns exactly the keys mapped,
\* with their count when there are any.
C25_RoundTrip ==
    [][/\ \A key \in StoreKeys :
              /\ Called("add", key) =>
                     Mapped(store', key[1], key[2]) /\ store'[key[1]][key[2]] = res'.mapping
              /\ (Called("remove", key) /\ res'.status = "success") =>
                     ~Mapped(store', key[1], key[2])
              /\ ~(Called("add", key) \/ Called("remove", key)) =>
                     /\ Mapped(store', key[1], key[2]) <=> Mapped(store, key[1], key[2])
                     /\ Mapped(store, key[1], key[2]) =>
                            store'[key[1]][key[2]] = store[key[1]][key[2]]
       /\ res'.tool = "get" => GetAgrees(res', store')]_vars

\* a get returned the mapping of the latest add to its key: the key was
\* added, then added again later under another name
C25_GotLatest ==
    /\ res.tool = "get"
    /\ res.status = "success"
    /\ Has(res, "mapping")
    /\ res.mapping.created_at < res.mapping.updated_at
    /\ DOMAIN store = StoreFiles

\* C28: creation timestamp is preserved across updates.  An add to a key
\* without a mapping reports "added" and stores created_at equal to
\* updated_at; an add to a key with a mapping reports "updated", keeps the
\* stored created_at and sets updated_at to the current timestamp; and while
\* a key stays mapped its created_at never changes and is never later than
\* its updated_at.
C28_CreatedAtKept ==
    [][\A key \in StoreKeys :
           /\ Called("add", key) =>
                  IF Mapped(store, key[1], key[2])
                  THEN /\ res'.action = "updated"
                       /\ res'.mapping.created_at = store[key[1]][key[2]].created_at
                       /\ res'.mapping.updated_at = clock
                  ELSE /\ res'.action = "added"
                       /\ res'.mapping.created_at = clock
                       /\ res'.mapping.updated_at = clock
           /\ (Mapped(store, key[1], key[2]) /\ Mapped(store', key[1], key[2])) =>
                  /\ store'[key[1]][key[2]].created_at = store[key[1]][key[2]].created_at
                  /\ store'[key[1]][key[2]].created_at <= store'[key[1]][key[2]].updated_at]_vars

\* an add has updated a mapping that was created at an earlier time
C28_UpdatedLater ==
    /\ res.tool = "add"
    /\ res.action = "updated"
    /\ Mapped(store, res.file_key, res.node_id)
    /\ store[res.file_key][res.node_id].created_at < store[res.file_key][res.node_id].updated_at

\* C29: removing a missing mapping is an error outcome without effect.  A
\* remove of a key that has no mapping, the file of the key without any
\* entry included, returns not_found and leaves the store as it was; a remove
\* of a key that has a mapping returns success, so that a second remove of
\* the same key returns not_found and changes nothing.
C29_RemoveMissing ==
    [][\A key \in StoreKeys :
           Called("remove", key) =>
               IF Mapped(store, key[1], key[2])
               THEN res'.status = "success"
               ELSE res'.status = "not_found" /\ store' = store]_vars

\* a remove found nothing for its key, in a file without any entry, while
\* the store held mappings of another file
C29_NothingToRemove ==
    /\ res.tool = "remove"
    /\ res.status = "not_found"
    /\ res.file_key \notin DOMAIN store
    /\ DOMAIN store # {}

\* C30: add and remove touch only their own key.  A successful add or remove
\* of a key leaves every other node id of the same file and every other file
\* as they were; the entry of the file itself exists afterwards exactly when
\* the file still has a mapping.
C30_OnlyOwnKey ==
    [][\A key \in StoreKeys :
           (Called("add", key) \/ (Called("remove", key) /\ res'.status = "success")) =>
               /\ DOMAIN store' \ {key[1]} = DOMAIN store \ {key[1]}
               /\ \A f \in DOMAIN store \ {key[1]} : store'[f] = store[f]
               /\ MappedIds(store', key[1]) \ {key[2]} = MappedIds(store, key[1]) \ {key[2]}
               /\ \A n \in MappedIds(store, key[1]) \ {key[2]} :
                      store'[key[1]][n] = store[key[1]][n]
               /\ key[1] \in DOMAIN store' <=> MappedIds(store', key[1]) # {}]_vars

\* a mapping was removed while another node of its file and a node of the
\* other file were mapped, and both still are
C30_OthersKept ==
    /\ res.tool = "remove"
    /\ res.status = "success"
    /\ MappedIds(store, res.file_key) # {}
    /\ DOMAIN store = StoreFiles

---------------------------------------------------------------------------
(* The tool figma_get_colors (src/figma_mcp.py) *)

RECURSIVE ExtractShadowsFromNode(_)
\* _extract_shadows_from_node(node, shadows): the shadows, then the blurs, of
\* the node and then of its children
ExtractShadowsFromNode(n) ==
    LET effects_data == ExtractEffectsData(n)
        children == ChildrenOf(n)
    IN  [i \in 1..Len(effects_data.shadows) |->
            [id |-> IdOf(n), type |-> effects_data.shadows[i].type,
             color |-> effects_data.shadows[i].color,
             radius |-> effects_data.shadows[i].radius]]
        \o [i \in 1..Len(effects_data.blurs) |->
               [id |-> IdOf(n), type |-> effects_data.blurs[i].type,
                radius |-> effects_data.blurs[i].radius]]
        \o Concat([i \in 1..Len(children) |-> ExtractShadowsFromNode(children[i])])

\* [c for c in colors if c.get('type') == kind]
ColorsOfType(colors, kind) == SelectSeq(colors, LAMBDA c : Get(c, "type", "") = kind)

RECURSIVE Deduplicate(_, _)
\* the deduplication loop: the first item of every value is kept
Deduplicate(items, seen) ==
    IF items = <<>> THEN <<>>
    ELSE IF Head(items) \in seen THEN Deduplicate(Tail(items), seen)
    ELSE <<Head(items)>> \o Deduplicate(Tail(items), seen \cup {Head(items)})

\* the list the tool builds for one kind: c['value'] of every selected entry
ColorValues(colors, kind) ==
    LET selected == ColorsOfType(colors, kind)
    IN  Deduplicate([i \in 1..Len(selected) |-> selected[i].value], {})

\* figma_get_colors(params), the node found.  c['value'] of an entry without
\* that key raises KeyError, which the handler turns into its error string.
FigmaGetColors ==
    \E include_fills \in BOOLEAN, include_strokes \in BOOLEAN, include_shadows \in BOOLEAN :
        LET colors == ExtractColorsFromNode(node)
            raises == \/ include_fills
                         /\ \E c \in Range(ColorsOfType(colors, "fill")) : ~Has(c, "value")
                      \/ include_strokes
                         /\ \E c \in Range(ColorsOfType(colors, "stroke")) : ~Has(c, "value")
        IN  /\ res' = IF raises
                      THEN [tool |-> "figma_get_colors", status |-> "error",
                            error |-> "KeyError"]
                      ELSE [tool |-> "figma_get_colors", status |-> "ok",
                            include_fills |-> include_fills,
                            include_strokes |-> include_strokes,
                            include_shadows |-> include_shadows,
                            fills |-> IF include_fills THEN ColorValues(colors, "fill")
                                      ELSE <<>>,
                            strokes |-> IF include_strokes THEN ColorValues(colors, "stroke")
                                        ELSE <<>>,
                            shadows |-> IF include_shadows THEN ExtractShadowsFromNode(node)
                                        ELSE <<>>]
            /\ UNCHANGED <<node, cname, out, memo, store, clock>>

InitColors == InitWith(LayerTrees(LayerLists(MaxLayers)), {"Card"}, MemoOff)
SpecColors == InitColors /\ [][FigmaGetColors]_vars

\* the colours of the visible SOLID paints of the list
SolidColors(paints) ==
    {RgbaToHex(Get(p, "color", EmptyDict)) :
        p \in {q \in Range(paints) : IsVisible(q) /\ Get(q, "type", "SOLID") = "SOLID"}}

\* no value twice in the list
NoDuplicates(items) == \A i, j \in 1..Len(items) : items[i] = items[j] => i = j

\* C26: figma_get_colors extracts all colours.  The tool returns its lists
\* and no error; with include_fills every visible solid fill colour of every
\* node of the subtree is in "fills", with include_strokes every visible
\* solid stroke colour is in "strokes", each value once; with include_shadows
\* every visible shadow of every node is in "shadows".
C26_AllColors ==
    res.tool = "figma_get_colors" =>
        /\ res.status = "ok"
        /\ NoDuplicates(res.fills) /\ NoDuplicates(res.strokes)
        /\ \A x \in NodesAt(node, 0) :
               /\ res.include_fills =>
                      SolidColors(Get(x.n, "fills", <<>>)) \subseteq Range(res.fills)
               /\ res.include_strokes =>
                      SolidColors(Get(x.n, "strokes", <<>>)) \subseteq Range(res.strokes)
               /\ res.include_shadows =>
                      \A s \in Range(ExtractEffectsData(x.n).shadows) :
                          \E i \in 1..Len(res.shadows) :
                              /\ res.shadows[i].id = IdOf(x.n)
                              /\ res.shadows[i].type = s.type
                              /\ res.shadows[i].radius = s.radius

---------------------------------------------------------------------------
(* Containers of the recursive SwiftUI generator: order of the output *)

MaxOrder == 3
\* a container carrying no style but its box
PlainStyle == [absoluteBoundingBox |-> Box(100, 100)]
\* a container carrying every style the modifiers are collected from
FullStyle ==
    [absoluteBoundingBox |-> Box(100, 100),
     fills |-> <<Solid(Black), LinearPaint>>,
     cornerRadius |-> 8,
     strokes |-> <<Solid(Black)>>, strokeWeight |-> 2,
     effects |-> <<[type |-> "DROP_SHADOW", radius |-> 4, color |-> HalfRed],
                   [type |-> "LAYER_BLUR", radius |-> 4]>>,
     opacity |-> 50,
     paddingTop |-> 4, paddingRight |-> 4, paddingBottom |-> 4, paddingLeft |-> 4,
     clipsContent |-> TRUE,
     layoutMode |-> "VERTICAL", itemSpacing |-> 8]
\* a container with four different corners and padding on one side
CornersStyle ==
    [absoluteBoundingBox |-> Box(100, 100),
     fills |-> <<Solid(HalfRed)>>,
     rectangleCornerRadii |-> <<4, 0, 4, 0>>,
     paddingTop |-> 4,
     layoutMode |-> "HORIZONTAL"]
ContainerStyles == {PlainStyle, FullStyle, CornersStyle}

OrderKinds == {"text", "rect", "hidden", "nested", "empty"}
\* the child of one kind at position i: its id is i, the id of a child of
\* its own is 10 + i
OrderChild(kind, i) ==
    IF kind = "text"
    THEN [id |-> i, type |-> "TEXT", characters |-> "t", style |-> [fontSize |-> 12],
          fills |-> <<Solid(Black)>>]
    ELSE IF kind = "rect"
    THEN [id |-> i, type |-> "RECTANGLE", absoluteBoundingBox |-> Box(40, 30),
          fills |-> <<Solid(Black)>>]
    ELSE IF kind = "hidden"
    THEN [id |-> i, type |-> "RECTANGLE", absoluteBoundingBox |-> Box(40, 30),
          fills |-> <<Solid(Black)>>, visible |-> FALSE]
    ELSE IF kind = "nested"
    THEN Merge(FullStyle,
               [id |-> i, type |-> "FRAME",
                children |-> <<[id |-> 10 + i, type |-> "TEXT", characters |-> "t",
                                style |-> [fontSize |-> 12]]>>])
    ELSE [id |-> i, type |-> "FRAME", absoluteBoundingBox |-> Box(40, 30)]

\* the child lists of up to max_len children of the kinds above
OrderLists(max_len) ==
    UNION {{[i \in 1..len |-> OrderChild(kinds[i], i)] : kinds \in [1..len -> OrderKinds]} :
              len \in 0..max_len}

\* the id of the styled container when it is a child of the root
InnerId == MaxOrder + 47

\* a styled container holding the child list: as the root, or as the only
\* child of a plain root
OrderTrees(lists) ==
    {Merge(st, [id |-> 0, type |-> "FRAME", children |-> kids]) :
        st \in ContainerStyles, kids \in lists}
    \cup
    {Merge(PlainStyle,
           [id |-> 0, type |-> "FRAME",
            children |-> <<Merge(st, [id |-> InnerId, type |-> "FRAME", children |-> kids])>>]) :
        st \in ContainerStyles, kids \in lists}

InitOrder == InitWith(OrderTrees(OrderLists(MaxOrder)), {"Card"}, MemoOff)
SpecOrder == InitOrder /\ [][Render]_vars

\* the ids of the node and of everything below it
IdsUnder(n) == {IdOf(x.n) : x \in NodesAt(n, 0)}
\* the positions of the output that carry one of the ids
PositionsOf(lines, ids) == {i \in 1..Len(lines) : lines[i].id \in ids}
\* the positions of the opening, or of the closing, line of the container
MarksOf(lines, id, k) == {i \in 1..Len(lines) : lines[i].id = id /\ lines[i].k = k}
\* the children of the container that left something in the output
ChildrenWritten(lines, n) ==
    {i \in 1..Len(ChildrenOf(n)) : PositionsOf(lines, IdsUnder(ChildrenOf(n)[i])) # {}}
\* the positions of the style modifiers of the container: everything it
\* wrote that is not its opening line, its closing line or a comment line
ModifiersOf(lines, id) ==
    {i \in 1..Len(lines) :
        /\ lines[i].id = id
        /\ lines[i].k \notin {"stack", "/stack", "truncated", "comment"}}

\* the output of one container is in post-order
PostOrder(lines, n) ==
    LET id == IdOf(n)
        children == ChildrenOf(n)
        rendered == ChildrenWritten(lines, n)
    IN  rendered # {} =>
            \E open \in MarksOf(lines, id, "stack"), close \in MarksOf(lines, id, "/stack") :
                /\ MarksOf(lines, id, "stack") = {open}
                /\ MarksOf(lines, id, "/stack") = {close}
                /\ \A i \in rendered :
                       \A p \in PositionsOf(lines, IdsUnder(children[i])) :
                           /\ open < p /\ p < close
                           /\ \A j \in rendered :
                                  i < j =>
                                      \A q \in PositionsOf(lines, IdsUnder(children[j])) : p < q
                /\ \A m \in ModifiersOf(lines, id) : close < m

\* C27: post-order emission and child order.  In the output of the recursive
\* SwiftUI generator, for every container with at least one rendered child:
\* the rendered children appear in the order of the child list, all of them
\* between the opening and the closing line of the container, and every
\* style modifier of the container comes after the closing line.
C27_PostOrder ==
    (out.fw = "swiftui_recursive" /\ out.status = "ok") =>
        \A x \in NodesAt(out.node, 0) :
            Get(x.n, "type", "") \in ContainerTypes => PostOrder(out.lines, x.n)

\* a styled container below the root wrote its modifiers and two children,
\* one of them a styled container itself
C27_StyledContainer ==
    /\ out.fw = "swiftui_recursive" /\ out.status = "ok"
    /\ \E x \in NodesAt(out.node, 0) :
           /\ IdOf(x.n) = InnerId
           /\ Cardinality(ChildrenWritten(out.lines, x.n)) >= 2
           /\ \E i \in ChildrenWritten(out.lines, x.n) :
                  ModifiersOf(out.lines, IdOf(ChildrenOf(x.n)[i])) # {}
                  /\ MarksOf(out.lines, IdOf(ChildrenOf(x.n)[i]), "stack") # {}
           /\ \E m \in ModifiersOf(out.lines, InnerId) : out.lines[m].k = ".background"
           /\ \E m \in ModifiersOf(out.lines, InnerId) : out.lines[m].k = ".padding"
===========================================================================
